---- MODULE Spec2Model ----
(***************************************************************************)
(* A model of GskPath (gsk/gskpath.c): the SVG-style path parser           *)
(* gsk_path_parse with its scanning helpers, the reference count, the      *)
(* foreach dispatch with its trampoline, and gsk_path_print.               *)
(*                                                                         *)
(* Strings are sequences of one-character strings; the scan position p is  *)
(* a 1-based index and the terminating NUL is the position Len(s) + 1.     *)
(* Coordinates are integers (the inputs hold integer literals only).       *)
(***************************************************************************)
EXTENDS Integers, Sequences, FiniteSets, TLC

VARIABLES
  \* ---- gsk_path_parse: the argument and the locals of the function
  input,        \* const char *string
  p,            \* const char *p, as an index into input
  cmd,          \* char cmd
  prev_cmd,     \* char prev_cmd
  repeat,       \* gboolean repeat
  after_comma,  \* gboolean after_comma
  x, y,         \* the current point
  prev_x1, prev_y1, \* the previous second control point
  path_x, path_y,   \* the start point of the current subpath
  builder,      \* the calls made on the GskPathBuilder, in order
  ppc,          \* where gsk_path_parse is: "loop" or "done"
  tokens,       \* the tokens the caller wrote input from
  ret           \* what gsk_path_parse returned: "none", "NULL" or "path"

VARIABLES
  \* ---- gsk_path_ref / gsk_path_unref on one GskPath
  ref_count,    \* guint ref_count
  freed,        \* how many times g_free (self) was called
  refs, unrefs, \* the calls of gsk_path_ref / gsk_path_unref that returned
  tpc,          \* per thread: where it is in gsk_path_ref / gsk_path_unref
  treg,         \* per thread: the value of ref_count it holds in a register
  held          \* per thread: the references it owns

VARIABLES
  \* ---- gsk_path_foreach_with_tolerance
  fe_path,      \* self: the contours, each the sequence of its operations
  fe_flags,     \* flags, as the set of the allowed kinds
  fe_i,         \* gsize i, counted from 1
  fe_j,         \* the operation gsk_contour_foreach is at, counted from 1
  fe_pc,        \* "loop", "contour", "returned" or "done"
  fe_ok,        \* what gsk_contour_foreach returned
  fe_log,       \* the invocations of the caller's func, in order
  fe_ret        \* what the call returned: "none", "TRUE" or "FALSE"

VARIABLES
  \* ---- gsk_path_print / gsk_path_to_string and back through the parser
  pr_a, pr_b,   \* two paths
  pr_pc,        \* "start", "printed" or "parsed"
  pr_s,         \* gsk_path_to_string of the path built from pr_a and pr_b
  pr_parsed     \* gsk_path_parse (pr_s)

VARIABLES
  \* ---- the queries on one GskPath
  q_src,        \* what the path is made from: a string, or paths to append
  q_path,       \* the GskPath: flags, n_contours and contours[]
  q_pc,         \* "new", "built", "null" or "asked"
  q_out         \* the function called last, with what it returned

VARIABLES
  \* ---- gsk_path_point_equal / gsk_path_point_compare
  pt_in,        \* three GskPathPoint
  pt_pc,        \* "new" or "called"
  pt_out        \* the function called, with what it returned for each pair

VARIABLES
  \* ---- gsk_curve_decompose on one curve
  cv_op,        \* the operation of the curve: "LINE" or a curved one
  cv_stack,     \* the pieces still to do, the first one on top
  cv_last,      \* the arguments of the last call of the callback
  cv_pc         \* "run" or "done"

parseVars == <<input, tokens, p, cmd, prev_cmd, repeat, after_comma, x, y,
               prev_x1, prev_y1, path_x, path_y, builder, ppc, ret>>

refVars == <<ref_count, freed, refs, unrefs, tpc, treg, held>>

foreachVars == <<fe_path, fe_flags, fe_i, fe_j, fe_pc, fe_ok, fe_log, fe_ret>>

printVars == <<pr_a, pr_b, pr_pc, pr_s, pr_parsed>>

queryVars == <<q_src, q_path, q_pc, q_out>>

pointVars == <<pt_in, pt_pc, pt_out>>

curveVars == <<cv_op, cv_stack, cv_last, cv_pc>>

vars == <<parseVars, refVars, foreachVars, printVars, queryVars, pointVars, curveVars>>

\* The threads that own references to the path
Threads == {"t1", "t2"}

\* gsk_path_new_from_contours: path->ref_count = 1, owned by the creator
PathNew ==
  /\ ref_count = 1
  /\ freed = 0
  /\ refs = 0 /\ unrefs = 0
  /\ tpc = [t \in Threads |-> "idle"]
  /\ treg = [t \in Threads |-> 0]
  /\ held = [t \in Threads |-> IF t = "t1" THEN 1 ELSE 0]

\* No gsk_path_foreach_with_tolerance call under way
ForeachIdle ==
  /\ fe_path = <<>> /\ fe_flags = {}
  /\ fe_i = 1 /\ fe_j = 1
  /\ fe_pc = "done" /\ fe_ok = TRUE
  /\ fe_log = <<>> /\ fe_ret = "none"

\* Nothing printed
PrintIdle ==
  /\ pr_a = <<>> /\ pr_b = <<>>
  /\ pr_pc = "parsed"
  /\ pr_s = <<>>
  /\ pr_parsed = [ret |-> "path", calls |-> <<>>]

\* No path under query
QueryIdle ==
  /\ q_src = [kind |-> "none"]
  /\ q_path = [flags |-> {}, n_contours |-> 0, contours |-> <<>>]
  /\ q_pc = "asked"
  /\ q_out = [fn |-> "none"]

\* No path point under comparison
PointIdle ==
  /\ pt_in = <<>>
  /\ pt_pc = "called"
  /\ pt_out = [fn |-> "none"]

\* No curve under decomposition
CurveIdle ==
  /\ cv_op = "none"
  /\ cv_stack = <<>>
  /\ cv_last = [n |-> 0]
  /\ cv_pc = "done"

(***************************************************************************)
(* Characters                                                              *)
(***************************************************************************)
NUL == ""

CharAt(s, i) == IF i >= 1 /\ i <= Len(s) THEN s[i] ELSE NUL

\* g_ascii_isspace: space, \t, \n, \f, \r
g_ascii_isspace(c) == c \in {" ", "\t", "\n", "\f", "\r"}

Digits == {"0", "1", "2", "3", "4", "5", "6", "7", "8", "9"}

DigitVal(c) ==
  CASE c = "0" -> 0 [] c = "1" -> 1 [] c = "2" -> 2 [] c = "3" -> 3
    [] c = "4" -> 4 [] c = "5" -> 5 [] c = "6" -> 6 [] c = "7" -> 7
    [] c = "8" -> 8 [] c = "9" -> 9

CommandLetters ==
  {"m", "M", "h", "H", "v", "V", "z", "Z", "l", "L", "c", "C",
   "s", "S", "t", "T", "q", "Q", "a", "A", "e", "E"}

(***************************************************************************)
(* Scanning helpers                                                        *)
(***************************************************************************)
RECURSIVE skip_whitespace(_, _)
skip_whitespace(s, i) ==
  IF g_ascii_isspace(CharAt(s, i)) THEN skip_whitespace(s, i + 1) ELSE i

skip_optional_comma(s, i) ==
  LET q == skip_whitespace(s, i)
  IN  IF CharAt(s, q) = "," THEN q + 1 ELSE q

\* The digits of a decimal literal from position i on: [e, v], e the first
\* position after them and v their value continuing from acc.
RECURSIVE ScanDigits(_, _, _)
ScanDigits(s, i, acc) ==
  IF CharAt(s, i) \in Digits
  THEN ScanDigits(s, i + 1, 10 * acc + DigitVal(CharAt(s, i)))
  ELSE [e |-> i, v |-> acc]

\* g_ascii_strtod on decimal integer literals: leading white space, an
\* optional sign, at least one digit.  e = i when nothing was converted.
g_ascii_strtod(s, i) ==
  LET q    == skip_whitespace(s, i)
      sgn  == CharAt(s, q)
      d0   == IF sgn \in {"-", "+"} THEN q + 1 ELSE q
      r    == ScanDigits(s, d0, 0)
  IN  IF r.e = d0
      THEN [e |-> i, v |-> 0]
      ELSE [e |-> r.e, v |-> IF sgn = "-" THEN 0 - r.v ELSE r.v]

\* No test of e against *p
parse_number_end_unchecked(s, i, r) ==
  [ok |-> TRUE, p |-> skip_optional_comma(s, r.e), v |-> <<r.v>>]

\* parse_number after g_ascii_strtod gave r: if (e == *p) return FALSE;
\* else *p = e; skip_optional_comma (p); *c = n.  v holds the values read.
parse_number_end(s, i, r) ==
  IF r.e = i
  THEN [ok |-> FALSE, p |-> i, v |-> <<>>]
  ELSE [ok |-> TRUE, p |-> skip_optional_comma(s, r.e), v |-> <<r.v>>]

parse_number(s, i) == parse_number_end(s, i, g_ascii_strtod(s, i))

parse_coordinate(s, i) == parse_number(s, i)

\* parse_coordinate_pair after its two parse_coordinate calls gave a and b:
\* *out_p is set, and the pair written, only when both succeeded.
parse_coordinate_pair_end(i, a, b) ==
  IF ~b.ok THEN [ok |-> FALSE, p |-> i, v |-> <<>>]
  ELSE [ok |-> TRUE, p |-> b.p, v |-> a.v \o b.v]

parse_coordinate_pair_second(s, i, a) ==
  IF ~a.ok THEN [ok |-> FALSE, p |-> i, v |-> <<>>]
  ELSE parse_coordinate_pair_end(i, a, parse_coordinate(s, a.p))

parse_coordinate_pair(s, i) ==
  parse_coordinate_pair_second(s, i, parse_coordinate(s, i))

\* parse_nonnegative_number after parse_number gave r: a failure of
\* parse_number leaves p where parse_number left it, n < 0 restores it.
parse_nonnegative_number_end(i, r) ==
  IF ~r.ok THEN r
  ELSE IF r.v[1] < 0 THEN [ok |-> FALSE, p |-> i, v |-> <<>>]
  ELSE r

parse_nonnegative_number(s, i) ==
  parse_nonnegative_number_end(i, parse_number(s, i))

\* strchr: the terminating NUL of str is found too
strchr(str, c) == c = NUL \/ c \in str

\* _strchr: NULL for the NUL character, else strchr (str as a set)
_strchr(str, c) == IF c = NUL THEN FALSE ELSE c \in str

\* parse_flag taking any digit for a flag.
parse_flag_any_digit(s, i) ==
  LET q == skip_whitespace(s, i)
  IN  IF _strchr(Digits, CharAt(s, q))
      THEN [ok |-> TRUE, p |-> skip_optional_comma(s, q + 1),
            v |-> <<IF CharAt(s, q) = "0" THEN 0 ELSE 1>>]
      ELSE [ok |-> FALSE, p |-> q, v |-> <<>>]

parse_flag(s, i) ==
  LET q == skip_whitespace(s, i)
  IN  IF _strchr({"0", "1"}, CharAt(s, q))
      THEN [ok |-> TRUE, p |-> skip_optional_comma(s, q + 1),
            v |-> <<IF CharAt(s, q) = "1" THEN 1 ELSE 0>>]
      ELSE [ok |-> FALSE, p |-> q, v |-> <<>>]

parse_command(s, i, c) ==
  LET allowed == IF c = "X" THEN {"m", "M"} ELSE CommandLetters
      q       == skip_whitespace(s, i)
  IN  IF _strchr(allowed, CharAt(s, q))
      THEN [ok |-> TRUE, p |-> q + 1, cmd |-> CharAt(s, q)]
      ELSE [ok |-> FALSE, p |-> q, cmd |-> c]

(***************************************************************************)
(* The conditions "if (parse_a (&p, ..) && parse_b (&p, ..) && ...)" of    *)
(* the switch: the parsers named in kinds applied left to right from the   *)
(* position a.p, stopping at the first that fails.  a = [ok, p, v], v the  *)
(* values read so far.                                                     *)
(***************************************************************************)
parse_arg(s, k, i) ==
  CASE k = "pair"        -> parse_coordinate_pair(s, i)
    [] k = "coordinate"  -> parse_coordinate(s, i)
    [] k = "number"      -> parse_number(s, i)
    [] k = "nonnegative" -> parse_nonnegative_number(s, i)
    [] k = "flag"        -> parse_flag(s, i)

parse_and(a, r) ==
  IF ~r.ok THEN [ok |-> FALSE, p |-> r.p, v |-> a.v]
  ELSE [ok |-> TRUE, p |-> r.p, v |-> a.v \o r.v]

RECURSIVE parse_args(_, _, _)
parse_args(s, kinds, a) ==
  IF kinds = <<>> \/ ~a.ok THEN a
  ELSE parse_args(s, Tail(kinds), parse_and(a, parse_arg(s, Head(kinds), a.p)))

parse_from(i) == [ok |-> TRUE, p |-> i, v |-> <<>>]

(***************************************************************************)
(* gsk_path_parse: the calls on the builder and the switch over cmd.       *)
(* A case takes the string s, the position i after the command letter, the *)
(* letter c, the previous letter pv, repeat rp and the record st of the    *)
(* locals x, y, prev_x1, prev_y1, path_x, path_y; it gives                 *)
(* [ok, p, st, calls]: ok = FALSE is "goto error".  case_X_body is the     *)
(* case once its arguments a have been parsed.                             *)
(***************************************************************************)
Call(op, args) == [op |-> op, args |-> args]

ParseFail(i, st) == [ok |-> FALSE, p |-> i, st |-> st, calls |-> <<>>]

\* The reopening move_to left out.
reopen_calls_never(pv, st) == <<>>

\* if (_strchr ("zZ", prev_cmd)) { move_to (builder, x, y); path_x = x; path_y = y; }
reopen_calls(pv, st) ==
  IF _strchr({"z", "Z"}, pv) THEN <<Call("move_to", <<st.x, st.y>>)>> ELSE <<>>

reopen_state(pv, st) ==
  IF _strchr({"z", "Z"}, pv)
  THEN [st EXCEPT !.path_x = st.x, !.path_y = st.y]
  ELSE st

\* Every letter read as its relative form.
Rel_always(c, rel, v, cur) == v + cur

\* Every letter read as its absolute form.
Rel_never(c, rel, v, cur) == v

\* x1 += x for the lower-case (relative) letter rel
Rel(c, rel, v, cur) == IF c = rel THEN v + cur ELSE v

case_Z(s, i, c, pv, rp, st) ==
  IF rp THEN ParseFail(i, st)
  ELSE [ok |-> TRUE, p |-> i,
        st |-> [st EXCEPT !.x = st.path_x, !.y = st.path_y],
        calls |-> <<Call("close", <<>>)>>]

\* after move_to: if (_strchr ("zZX", prev_cmd)) { path_x = x1; path_y = y1; }
move_start(pv, st, x1, y1) ==
  IF _strchr({"z", "Z", "X"}, pv)
  THEN [st EXCEPT !.path_x = x1, !.path_y = y1]
  ELSE st

case_M_move(pv, st, i, x1, y1) ==
  [ok |-> TRUE, p |-> i,
   st |-> [move_start(pv, st, x1, y1) EXCEPT !.x = x1, !.y = y1],
   calls |-> <<Call("move_to", <<x1, y1>>)>>]

case_M_line(pv, st, i, x1, y1) ==
  [ok |-> TRUE, p |-> i,
   st |-> [st EXCEPT !.x = x1, !.y = y1],
   calls |-> <<Call("line_to", <<x1, y1>>)>>]

\* case 'M' making a move_to for repeated coordinate pairs too.
case_M_always_move(c, pv, rp, st, a) ==
  IF ~a.ok THEN ParseFail(a.p, st)
  ELSE case_M_move(pv, st, a.p, Rel(c, "m", a.v[1], st.x), Rel(c, "m", a.v[2], st.y))

case_M_body(c, pv, rp, st, a) ==
  IF ~a.ok THEN ParseFail(a.p, st)
  ELSE IF rp
  THEN case_M_line(pv, st, a.p, Rel(c, "m", a.v[1], st.x), Rel(c, "m", a.v[2], st.y))
  ELSE case_M_move(pv, st, a.p, Rel(c, "m", a.v[1], st.x), Rel(c, "m", a.v[2], st.y))

case_M(s, i, c, pv, rp, st) ==
  case_M_body(c, pv, rp, st, parse_args(s, <<"pair">>, parse_from(i)))

case_L_body(c, pv, st, a) ==
  IF ~a.ok THEN ParseFail(a.p, st)
  ELSE [ok |-> TRUE, p |-> a.p,
        st |-> [reopen_state(pv, st) EXCEPT !.x = Rel(c, "l", a.v[1], st.x),
                                            !.y = Rel(c, "l", a.v[2], st.y)],
        calls |-> reopen_calls(pv, st) \o
                  <<Call("line_to", <<Rel(c, "l", a.v[1], st.x),
                                      Rel(c, "l", a.v[2], st.y)>>)>>]

case_L(s, i, c, pv, rp, st) ==
  case_L_body(c, pv, st, parse_args(s, <<"pair">>, parse_from(i)))

case_H_body(c, pv, st, a) ==
  IF ~a.ok THEN ParseFail(a.p, st)
  ELSE [ok |-> TRUE, p |-> a.p,
        st |-> [reopen_state(pv, st) EXCEPT !.x = Rel(c, "h", a.v[1], st.x)],
        calls |-> reopen_calls(pv, st) \o
                  <<Call("line_to", <<Rel(c, "h", a.v[1], st.x), st.y>>)>>]

case_H(s, i, c, pv, rp, st) ==
  case_H_body(c, pv, st, parse_args(s, <<"coordinate">>, parse_from(i)))

case_V_body(c, pv, st, a) ==
  IF ~a.ok THEN ParseFail(a.p, st)
  ELSE [ok |-> TRUE, p |-> a.p,
        st |-> [reopen_state(pv, st) EXCEPT !.y = Rel(c, "v", a.v[1], st.y)],
        calls |-> reopen_calls(pv, st) \o
                  <<Call("line_to", <<st.x, Rel(c, "v", a.v[1], st.y)>>)>>]

case_V(s, i, c, pv, rp, st) ==
  case_V_body(c, pv, st, parse_args(s, <<"coordinate">>, parse_from(i)))

case_C_body(c, pv, st, a) ==
  IF ~a.ok THEN ParseFail(a.p, st)
  ELSE [ok |-> TRUE, p |-> a.p,
        st |-> [reopen_state(pv, st) EXCEPT
                  !.prev_x1 = Rel(c, "c", a.v[3], st.x),
                  !.prev_y1 = Rel(c, "c", a.v[4], st.y),
                  !.x = Rel(c, "c", a.v[5], st.x),
                  !.y = Rel(c, "c", a.v[6], st.y)],
        calls |-> reopen_calls(pv, st) \o
                  <<Call("cubic_to",
                         <<Rel(c, "c", a.v[1], st.x), Rel(c, "c", a.v[2], st.y),
                           Rel(c, "c", a.v[3], st.x), Rel(c, "c", a.v[4], st.y),
                           Rel(c, "c", a.v[5], st.x), Rel(c, "c", a.v[6], st.y)>>)>>]

case_C(s, i, c, pv, rp, st) ==
  case_C_body(c, pv, st, parse_args(s, <<"pair", "pair", "pair">>, parse_from(i)))

\* No reflection: the current point whatever the previous command.
Reflect_never(set, pv, cur, prev1) == cur

\* the reflection of the previous control point about the current point
\* when prev_cmd is one of the letters in set, else the current point
Reflect(set, pv, cur, prev1) ==
  IF _strchr(set, pv) THEN 2 * cur - prev1 ELSE cur

case_S_body(c, pv, st, a) ==
  IF ~a.ok THEN ParseFail(a.p, st)
  ELSE [ok |-> TRUE, p |-> a.p,
        st |-> [reopen_state(pv, st) EXCEPT
                  !.prev_x1 = Rel(c, "s", a.v[1], st.x),
                  !.prev_y1 = Rel(c, "s", a.v[2], st.y),
                  !.x = Rel(c, "s", a.v[3], st.x),
                  !.y = Rel(c, "s", a.v[4], st.y)],
        calls |-> reopen_calls(pv, st) \o
                  <<Call("cubic_to",
                         <<Reflect({"C", "c", "S", "s"}, pv, st.x, st.prev_x1),
                           Reflect({"C", "c", "S", "s"}, pv, st.y, st.prev_y1),
                           Rel(c, "s", a.v[1], st.x), Rel(c, "s", a.v[2], st.y),
                           Rel(c, "s", a.v[3], st.x), Rel(c, "s", a.v[4], st.y)>>)>>]

case_S(s, i, c, pv, rp, st) ==
  case_S_body(c, pv, st, parse_args(s, <<"pair", "pair">>, parse_from(i)))

case_Q_body(c, pv, st, a) ==
  IF ~a.ok THEN ParseFail(a.p, st)
  ELSE [ok |-> TRUE, p |-> a.p,
        st |-> [reopen_state(pv, st) EXCEPT
                  !.prev_x1 = Rel(c, "q", a.v[1], st.x),
                  !.prev_y1 = Rel(c, "q", a.v[2], st.y),
                  !.x = Rel(c, "q", a.v[3], st.x),
                  !.y = Rel(c, "q", a.v[4], st.y)],
        calls |-> reopen_calls(pv, st) \o
                  <<Call("quad_to",
                         <<Rel(c, "q", a.v[1], st.x), Rel(c, "q", a.v[2], st.y),
                           Rel(c, "q", a.v[3], st.x), Rel(c, "q", a.v[4], st.y)>>)>>]

case_Q(s, i, c, pv, rp, st) ==
  case_Q_body(c, pv, st, parse_args(s, <<"pair", "pair">>, parse_from(i)))

case_T_body(c, pv, st, a) ==
  IF ~a.ok THEN ParseFail(a.p, st)
  ELSE [ok |-> TRUE, p |-> a.p,
        st |-> [reopen_state(pv, st) EXCEPT
                  !.prev_x1 = Reflect({"Q", "q", "T", "t"}, pv, st.x, st.prev_x1),
                  !.prev_y1 = Reflect({"Q", "q", "T", "t"}, pv, st.y, st.prev_y1),
                  !.x = Rel(c, "t", a.v[1], st.x),
                  !.y = Rel(c, "t", a.v[2], st.y)],
        calls |-> reopen_calls(pv, st) \o
                  <<Call("quad_to",
                         <<Reflect({"Q", "q", "T", "t"}, pv, st.x, st.prev_x1),
                           Reflect({"Q", "q", "T", "t"}, pv, st.y, st.prev_y1),
                           Rel(c, "t", a.v[1], st.x), Rel(c, "t", a.v[2], st.y)>>)>>]

case_T(s, i, c, pv, rp, st) ==
  case_T_body(c, pv, st, parse_args(s, <<"pair">>, parse_from(i)))

case_A_body(c, pv, st, a) ==
  IF ~a.ok THEN ParseFail(a.p, st)
  ELSE [ok |-> TRUE, p |-> a.p,
        st |-> [reopen_state(pv, st) EXCEPT !.x = Rel(c, "a", a.v[6], st.x),
                                            !.y = Rel(c, "a", a.v[7], st.y)],
        calls |-> reopen_calls(pv, st) \o
                  <<Call("svg_arc_to",
                         <<a.v[1], a.v[2], a.v[3], a.v[4], a.v[5],
                           Rel(c, "a", a.v[6], st.x), Rel(c, "a", a.v[7], st.y)>>)>>]

case_A(s, i, c, pv, rp, st) ==
  case_A_body(c, pv, st,
              parse_args(s, <<"nonnegative", "nonnegative", "number",
                              "flag", "flag", "pair">>, parse_from(i)))

case_E_body(c, pv, st, a) ==
  IF ~a.ok THEN ParseFail(a.p, st)
  ELSE [ok |-> TRUE, p |-> a.p,
        st |-> [reopen_state(pv, st) EXCEPT
                  !.prev_x1 = Rel(c, "e", a.v[1], st.x),
                  !.prev_y1 = Rel(c, "e", a.v[2], st.y),
                  !.x = Rel(c, "e", a.v[3], st.x),
                  !.y = Rel(c, "e", a.v[4], st.y)],
        calls |-> reopen_calls(pv, st) \o
                  <<Call("arc_to",
                         <<Rel(c, "e", a.v[1], st.x), Rel(c, "e", a.v[2], st.y),
                           Rel(c, "e", a.v[3], st.x), Rel(c, "e", a.v[4], st.y)>>)>>]

case_E(s, i, c, pv, rp, st) ==
  case_E_body(c, pv, st, parse_args(s, <<"pair", "pair">>, parse_from(i)))

\* switch (cmd)
parse_switch(s, i, c, pv, rp, st) ==
  CASE c = "X"          -> ParseFail(i, st)
    [] c \in {"Z", "z"} -> case_Z(s, i, c, pv, rp, st)
    [] c \in {"M", "m"} -> case_M(s, i, c, pv, rp, st)
    [] c \in {"L", "l"} -> case_L(s, i, c, pv, rp, st)
    [] c \in {"H", "h"} -> case_H(s, i, c, pv, rp, st)
    [] c \in {"V", "v"} -> case_V(s, i, c, pv, rp, st)
    [] c \in {"C", "c"} -> case_C(s, i, c, pv, rp, st)
    [] c \in {"S", "s"} -> case_S(s, i, c, pv, rp, st)
    [] c \in {"Q", "q"} -> case_Q(s, i, c, pv, rp, st)
    [] c \in {"T", "t"} -> case_T(s, i, c, pv, rp, st)
    [] c \in {"A", "a"} -> case_A(s, i, c, pv, rp, st)
    [] c \in {"E", "e"} -> case_E(s, i, c, pv, rp, st)
    [] OTHER            -> ParseFail(i, st)

\* The end of a pass of while (*p), the switch having given r:
\* after_comma = (p > string) && p[-1] == ','.
parse_iteration_end(s, c, ac, pc0, r) ==
  [ok |-> r.ok, p |-> r.p, cmd |-> pc0.cmd, prev_cmd |-> c,
   repeat |-> ~pc0.ok, st |-> r.st, calls |-> r.calls,
   after_comma |-> IF r.ok THEN (r.p > 1) /\ CharAt(s, r.p - 1) = "," ELSE ac]

\* A pass after parse_command gave pc0: repeat = !parse_command (..);
\* if (after_comma && !repeat) goto error; then the switch.
parse_iteration_switch(s, c, ac, st, pc0) ==
  IF ac /\ pc0.ok
  THEN [ok |-> FALSE, p |-> pc0.p, cmd |-> pc0.cmd, prev_cmd |-> c,
        repeat |-> FALSE, st |-> st, calls |-> <<>>, after_comma |-> ac]
  ELSE parse_iteration_end(s, c, ac, pc0,
                           parse_switch(s, pc0.p, pc0.cmd, c, ~pc0.ok, st))

\* One pass of the body of while (*p)
parse_iteration(s, i, c, ac, st) ==
  parse_iteration_switch(s, c, ac, st, parse_command(s, i, c))

(***************************************************************************)
(* The inputs: strings written from tokens.  A token is a command letter,  *)
(* an integer, a comma or a character that belongs to no token; a letter,  *)
(* a number and the stray character are written after one space, so that   *)
(* two numbers never run together.                                         *)
(***************************************************************************)
Tok(k, c, v) == [k |-> k, c |-> c, v |-> v]
TCmd(c)  == Tok("cmd", c, 0)
TNum(v)  == Tok("num", "", v)
TComma   == Tok("comma", ",", 0)
TJunk    == Tok("junk", "x", 0)

DigitChar(d) ==
  CASE d = 0 -> "0" [] d = 1 -> "1" [] d = 2 -> "2" [] d = 3 -> "3"
    [] d = 4 -> "4" [] d = 5 -> "5" [] d = 6 -> "6" [] d = 7 -> "7"
    [] d = 8 -> "8" [] d = 9 -> "9"

RECURSIVE NatChars(_)
NatChars(n) ==
  IF n < 10 THEN <<DigitChar(n)>>
  ELSE NatChars(n \div 10) \o <<DigitChar(n % 10)>>

IntChars(n) == IF n < 0 THEN <<"-">> \o NatChars(0 - n) ELSE NatChars(n)

TokChars(t) ==
  CASE t.k = "cmd"   -> <<" ", t.c>>
    [] t.k = "num"   -> <<" ">> \o IntChars(t.v)
    [] t.k = "comma" -> <<",">>
    [] t.k = "junk"  -> <<" ", t.c>>

RECURSIVE RenderTokens(_)
RenderTokens(ts) ==
  IF ts = <<>> THEN <<>> ELSE TokChars(Head(ts)) \o RenderTokens(Tail(ts))

RECURSIVE Nums(_)
Nums(vs) == IF vs = <<>> THEN <<>> ELSE <<TNum(Head(vs))>> \o Nums(Tail(vs))

CmdChunk(c, vs) == <<TCmd(c)>> \o Nums(vs)

\* One well-formed command of every letter, commands that lack an argument,
\* arguments with no letter, an arc with a flag of 2, an arc with a negative
\* radius, a comma, and a stray character.
Chunks ==
  { CmdChunk("M", <<1, 2>>), CmdChunk("m", <<1, 2>>),
    CmdChunk("L", <<3, 4>>), CmdChunk("l", <<3, 4>>),
    CmdChunk("H", <<5>>),    CmdChunk("h", <<5>>),
    CmdChunk("V", <<6>>),    CmdChunk("v", <<6>>),
    CmdChunk("C", <<1, 2, 3, 4, 5, 6>>), CmdChunk("c", <<1, 2, 3, 4, 5, 6>>),
    CmdChunk("S", <<3, 4, 5, 6>>), CmdChunk("s", <<3, 4, 5, 6>>),
    CmdChunk("Q", <<3, 4, 5, 6>>), CmdChunk("q", <<3, 4, 5, 6>>),
    CmdChunk("T", <<5, 6>>), CmdChunk("t", <<5, 6>>),
    CmdChunk("A", <<1, 2, 0, 0, 1, 5, 6>>), CmdChunk("a", <<1, 2, 0, 0, 1, 5, 6>>),
    CmdChunk("E", <<3, 4, 5, 6>>), CmdChunk("e", <<3, 4, 5, 6>>),
    CmdChunk("Z", <<>>), CmdChunk("z", <<>>),
    CmdChunk("L", <<3>>), CmdChunk("A", <<1, 2, 0, 0, 1, 5>>),
    CmdChunk("L", <<>>), CmdChunk("A", <<1, 2, 0>>),
    CmdChunk("A", <<1, 2, 0, 0, 1>>),
    Nums(<<7>>), Nums(<<7, 8>>), Nums(<<7, 8, 9, 6>>),
    CmdChunk("A", <<1, 2, 0, 2, 1, 5, 6>>),
    CmdChunk("a", <<0 - 1, 2, 0, 0, 1, 5, 6>>),
    <<TComma>>, <<TJunk>> }

MoveChunks == { CmdChunk("M", <<1, 2>>), CmdChunk("m", <<1, 2>>) }

\* The number of chunks that follow the leading M or m.
MaxChunks == 2

RECURSIVE Flatten(_)
Flatten(cs) == IF cs = <<>> THEN <<>> ELSE Head(cs) \o Flatten(Tail(cs))

ChunkSeqs(n) == UNION { [1..k -> Chunks] : k \in 0..n }

\* The empty string, every single chunk, and every M or m followed by up to
\* MaxChunks chunks (what follows another first token is never read).
TokenInputs ==
  {<<>>} \cup Chunks \cup
  { Flatten(<<m>> \o cs) : m \in MoveChunks, cs \in ChunkSeqs(MaxChunks) }

(***************************************************************************)
(* gsk_path_parse as a state machine: one step per pass of the loop.       *)
(***************************************************************************)
ParseLocals ==
  [x |-> x, y |-> y, prev_x1 |-> prev_x1, prev_y1 |-> prev_y1,
   path_x |-> path_x, path_y |-> path_y]

\* The state at "p = string", before the first test of the loop.
ParseInitOn(ts, string) ==
  /\ tokens = ts
  /\ input = string
  /\ p = 1
  /\ cmd = "X"
  /\ prev_cmd = "X"
  /\ repeat = FALSE
  /\ after_comma = FALSE
  /\ x = 0 /\ y = 0
  /\ prev_x1 = 0 /\ prev_y1 = 0
  /\ path_x = 0 /\ path_y = 0
  /\ builder = <<>>
  /\ ppc = "loop"
  /\ ret = "none"

\* while (*p) { ... }: one pass; on "goto error" the builder is dropped
\* and NULL is returned.
ParseIter ==
  /\ ppc = "loop"
  /\ CharAt(input, p) # NUL
  /\ \E r \in {parse_iteration(input, p, cmd, after_comma, ParseLocals)} :
         /\ p' = r.p
         /\ cmd' = r.cmd
         /\ prev_cmd' = r.prev_cmd
         /\ repeat' = r.repeat
         /\ after_comma' = r.after_comma
         /\ x' = r.st.x /\ y' = r.st.y
         /\ prev_x1' = r.st.prev_x1 /\ prev_y1' = r.st.prev_y1
         /\ path_x' = r.st.path_x /\ path_y' = r.st.path_y
         /\ builder' = IF r.ok THEN builder \o r.calls ELSE <<>>
         /\ ppc' = IF r.ok THEN "loop" ELSE "done"
         /\ ret' = IF r.ok THEN "none" ELSE "NULL"
  /\ UNCHANGED <<input, tokens, refVars, foreachVars, printVars, queryVars, pointVars, curveVars>>

\* The loop ends at the NUL: if (after_comma) goto error; return the path.
ParseReturn ==
  /\ ppc = "loop"
  /\ CharAt(input, p) = NUL
  /\ ppc' = "done"
  /\ ret' = IF after_comma THEN "NULL" ELSE "path"
  /\ builder' = IF after_comma THEN <<>> ELSE builder
  /\ UNCHANGED <<input, tokens, p, cmd, prev_cmd, repeat, after_comma, x, y,
                 prev_x1, prev_y1, path_x, path_y>>
  /\ UNCHANGED <<refVars, foreachVars, printVars, queryVars, pointVars, curveVars>>

\* the string written from the tokens ts, as they are
ParseInit(ts) == ParseInitOn(ts, RenderTokens(ts))

InitParse ==
  /\ \E ts \in TokenInputs : ParseInit(ts)
  /\ PathNew /\ ForeachIdle /\ PrintIdle /\ QueryIdle /\ PointIdle /\ CurveIdle

NextParse == ParseIter \/ ParseReturn

SpecParse == InitParse /\ [][NextParse]_vars

\* gsk_path_parse as a function of the string: the loop run to its end,
\* from the result r of the pass before, with the calls made before it.
\* [ret, calls]: "NULL" with no calls, or "path" with the builder's calls.
RECURSIVE ParseRunFrom(_, _, _)
ParseRunFrom(s, r, calls) ==
  IF ~r.ok THEN [ret |-> "NULL", calls |-> <<>>]
  ELSE IF CharAt(s, r.p) = NUL
  THEN IF r.after_comma THEN [ret |-> "NULL", calls |-> <<>>]
                        ELSE [ret |-> "path", calls |-> calls \o r.calls]
  ELSE ParseRunFrom(s, parse_iteration(s, r.p, r.cmd, r.after_comma, r.st),
                    calls \o r.calls)

gsk_path_parse(s) ==
  ParseRunFrom(s,
               [ok |-> TRUE, p |-> 1, cmd |-> "X", prev_cmd |-> "X",
                repeat |-> FALSE, after_comma |-> FALSE, calls |-> <<>>,
                st |-> [x |-> 0, y |-> 0, prev_x1 |-> 0, prev_y1 |-> 0,
                        path_x |-> 0, path_y |-> 0]],
               <<>>)

(***************************************************************************)
(* The path grammar over tokens, as the documentation of gsk_path_parse    *)
(* and the SVG path syntax give it; the claims about the parser are stated *)
(* against it.                                                             *)
(***************************************************************************)
Arity(c) ==
  CASE c \in {"Z", "z"} -> 0
    [] c \in {"H", "h", "V", "v"} -> 1
    [] c \in {"M", "m", "L", "l", "T", "t"} -> 2
    [] c \in {"S", "s", "Q", "q", "E", "e"} -> 4
    [] c \in {"C", "c"} -> 6
    [] c \in {"A", "a"} -> 7
    [] OTHER -> 0

\* The k-th argument (from 0) of command c may be v: the radii of an arc
\* are not negative, its two flags are 0 or 1.
ArgOK(c, k, v) ==
  IF c \in {"A", "a"}
  THEN (k \in {0, 1} => v >= 0) /\ (k \in {3, 4} => v \in {0, 1})
  ELSE TRUE

\* c: the command in force ("X": none yet); k: the arguments read of the
\* group in progress; fresh: no group of c is complete yet; last: the kind
\* of the token before.
RECURSIVE GrammarFrom(_, _, _, _, _, _)
GrammarFrom(ts, i, c, k, fresh, last) ==
  IF i > Len(ts)
  THEN last # "comma" /\ (c = "X" \/ Arity(c) = 0 \/ (k = 0 /\ ~fresh))
  ELSE CASE ts[i].k = "junk"  -> FALSE
         [] ts[i].k = "comma" ->
              last = "num" /\ GrammarFrom(ts, i + 1, c, k, fresh, "comma")
         [] ts[i].k = "cmd"   ->
              /\ last # "comma"
              /\ IF c = "X" THEN ts[i].c \in {"M", "m"}
                 ELSE Arity(c) = 0 \/ (k = 0 /\ ~fresh)
              /\ GrammarFrom(ts, i + 1, ts[i].c, 0, TRUE, "cmd")
         [] ts[i].k = "num"   ->
              /\ c # "X" /\ Arity(c) > 0
              /\ ArgOK(c, k, ts[i].v)
              /\ GrammarFrom(ts, i + 1, c, (k + 1) % Arity(c),
                             fresh /\ (k + 1 < Arity(c)), "num")

GrammarOK(ts) == GrammarFrom(ts, 1, "X", 0, TRUE, "start")

\* The letter an omitted letter stands for.
RepeatLetter(c) == CASE c = "M" -> "L" [] c = "m" -> "l" [] OTHER -> c

\* ts with every omitted command letter written out (and the comma before
\* it, which may only stand between two numbers, left out).
RECURSIVE ExplicitFrom(_, _, _, _, _)
ExplicitFrom(ts, i, c, k, fresh) ==
  IF i > Len(ts) THEN <<>>
  ELSE CASE ts[i].k = "cmd" ->
              <<ts[i]>> \o ExplicitFrom(ts, i + 1, ts[i].c, 0, TRUE)
         [] ts[i].k = "comma" ->
              (IF k = 0 /\ ~fresh THEN <<>> ELSE <<ts[i]>>)
              \o ExplicitFrom(ts, i + 1, c, k, fresh)
         [] ts[i].k = "num" /\ k = 0 /\ ~fresh /\ Arity(c) > 0 ->
              <<TCmd(RepeatLetter(c)), ts[i]>>
              \o ExplicitFrom(ts, i + 1, RepeatLetter(c), 1 % Arity(c),
                              1 < Arity(c))
         [] ts[i].k = "num" /\ Arity(c) > 0 ->
              <<ts[i]>>
              \o ExplicitFrom(ts, i + 1, c, (k + 1) % Arity(c),
                              fresh /\ (k + 1 < Arity(c)))
         [] OTHER ->
              <<ts[i]>> \o ExplicitFrom(ts, i + 1, c, k, fresh)

Explicit(ts) == ExplicitFrom(ts, 1, "X", 0, TRUE)

\* A Z or z directly followed by a number.
ArgsAfterClose(ts) ==
  \E i \in 1..(Len(ts) - 1) :
    ts[i].k = "cmd" /\ ts[i].c \in {"Z", "z"} /\ ts[i + 1].k = "num"

DrawLetters ==
  {"L", "l", "H", "h", "V", "v", "C", "c", "S", "s", "Q", "q", "T", "t",
   "A", "a", "E", "e"}

\* The point of the latest move_to among the calls.
RECURSIVE LastMoveTo(_)
LastMoveTo(calls) ==
  IF calls = <<>> THEN <<>>
  ELSE IF calls[Len(calls)].op = "move_to" THEN calls[Len(calls)].args
  ELSE LastMoveTo(SubSeq(calls, 1, Len(calls) - 1))

(***************************************************************************)
(* Claims about gsk_path_parse                                             *)
(***************************************************************************)

\* C1: a string that is not a sentence of the path grammar (a number that
\* does not parse, too few arguments, a flag other than 0 or 1, a stray
\* character, a comma before a letter or the end, a first token other than
\* M or m) makes gsk_path_parse return NULL and leaves no path, however
\* many commands before the error were well formed.
C1_Transactional ==
  (ppc = "done" /\ ~GrammarOK(tokens)) => (ret = "NULL" /\ builder = <<>>)

\* An error after two commands that were parsed.
C1_Witness ==
  /\ ppc = "done" /\ ret = "NULL" /\ ~GrammarOK(tokens)
  /\ Len(tokens) >= 7
  /\ GrammarOK(SubSeq(tokens, 1, 6))
  /\ p > 9

\* C2: after a Z or z the current point is the point of the latest move_to
\* made on the builder, the start of the subpath that was closed.
C2_CloseReturnsToSubpathStart ==
  (ppc = "loop" /\ cmd \in {"Z", "z"}) => <<x, y>> = LastMoveTo(builder)

\* C3: a drawing command that follows Z or z makes one move_to at the
\* current point, records that point as the subpath start, and then makes
\* its drawing call; after any other command it makes no move_to.
C3_ReopenAfterClose ==
  [][ (ppc = "loop" /\ ppc' = "loop" /\ cmd' \in DrawLetters) =>
        LET new == SubSeq(builder', Len(builder) + 1, Len(builder'))
        IN  IF cmd \in {"Z", "z"}
            THEN /\ Len(new) = 2
                 /\ new[1] = Call("move_to", <<x, y>>)
                 /\ new[2].op \notin {"move_to", "close"}
                 /\ path_x' = x /\ path_y' = y
            ELSE /\ Len(new) = 1
                 /\ new[1].op \notin {"move_to", "close"}
                 /\ path_x' = path_x /\ path_y' = path_y ]_vars

C3_Witness ==
  /\ ppc = "loop" /\ prev_cmd \in {"Z", "z"} /\ cmd \in DrawLetters
  /\ Len(builder) >= 4
  /\ builder[Len(builder) - 1].op = "move_to"
  /\ builder[Len(builder) - 2].op = "close"

\* C4: an omitted command letter repeats the previous command of
\* L/H/V/C/S/Q/T/A/E in the same case, and stands for L after M and for l
\* after m (a line_to, never a second move_to): an accepted string makes the
\* calls of the string with every letter written out; arguments directly
\* after Z or z make the parse fail.
C4_RepeatedCommand ==
  /\ (ppc = "done" /\ ret = "path") =>
        gsk_path_parse(RenderTokens(Explicit(tokens)))
          = [ret |-> "path", calls |-> builder]
  /\ (ppc = "done" /\ ArgsAfterClose(tokens)) => ret = "NULL"
  /\ (ppc = "loop" /\ repeat) => (cmd = prev_cmd /\ cmd \notin {"Z", "z"})

\* An accepted string in which a letter was omitted after M or m.
C4_Witness ==
  /\ ppc = "done" /\ ret = "path"
  /\ Explicit(tokens) # tokens
  /\ \E i \in 1..Len(builder) : builder[i].op = "line_to"
  /\ \A i \in 1..Len(tokens) :
        tokens[i].k = "cmd" => tokens[i].c \in {"M", "m"}

(***************************************************************************)
(* The reference count.  gsk_path_ref is "self->ref_count++" and           *)
(* gsk_path_unref is "g_return_if_fail (self->ref_count > 0);              *)
(* self->ref_count--; if (self->ref_count > 0) return; g_free (self);" on  *)
(* a plain guint.  A thread calls them on a reference it owns; an owner    *)
(* can hand a reference over to another thread.                            *)
(***************************************************************************)
MaxRefs == 6

\* A guint is held as its 32 bits read as a signed integer, the width of
\* TLC's integers: G_MAXUINT is -1, and "c > 0" on a guint is c # 0.
\* self->ref_count++ and self->ref_count-- on a guint:
ref_incr(c) == IF c = 2147483647 THEN (0 - 2147483647) - 1 ELSE c + 1

unref_decr(c) == IF c = (0 - 2147483647) - 1 THEN 2147483647 ELSE c - 1

\* gsk_path_unref keeping the path while the count is above one.
unref_keeps_above_one(c) == c \notin {0, 1}

\* if (self->ref_count > 0) return;
unref_keeps(c) == c # 0

\* g_return_if_fail (self->ref_count > 0)
unref_check(c) == c # 0

Idle(t) == tpc[t] = "idle"

\* the calls of gsk_path_ref made so far, returned or not
RefsStarted == refs + Cardinality({t \in Threads : tpc[t] = "ref_store"})

\* A read of self->ref_count: the field while the path is allocated; after
\* g_free the memory holds anything.
ReadRefCount == IF freed > 0 THEN 0..2 ELSE {ref_count}

\* ---- each call as one step: a single caller at a time
SeqRef(t) ==
  /\ \A u \in Threads : Idle(u)
  /\ held[t] > 0
  /\ refs < MaxRefs
  /\ ref_count' = ref_incr(ref_count)
  /\ refs' = refs + 1
  /\ held' = [held EXCEPT ![t] = @ + 1]
  /\ UNCHANGED <<freed, unrefs, tpc, treg>>
  /\ UNCHANGED <<parseVars, foreachVars, printVars, queryVars, pointVars, curveVars>>

SeqUnref(t) ==
  /\ \A u \in Threads : Idle(u)
  /\ held[t] > 0
  /\ held' = [held EXCEPT ![t] = @ - 1]
  /\ unrefs' = unrefs + 1
  /\ IF unref_check(ref_count)
     THEN /\ ref_count' = unref_decr(ref_count)
          /\ freed' = IF unref_keeps(unref_decr(ref_count)) THEN freed ELSE freed + 1
     ELSE UNCHANGED <<ref_count, freed>>
  /\ UNCHANGED <<refs, tpc, treg>>
  /\ UNCHANGED <<parseVars, foreachVars, printVars, queryVars, pointVars, curveVars>>

\* An owner hands one of its references to another thread.
Give(t, u) ==
  /\ t # u
  /\ Idle(t) /\ Idle(u)
  /\ held[t] > 0
  /\ held' = [held EXCEPT ![t] = @ - 1, ![u] = @ + 1]
  /\ UNCHANGED <<ref_count, freed, refs, unrefs, tpc, treg>>
  /\ UNCHANGED <<parseVars, foreachVars, printVars, queryVars, pointVars, curveVars>>

\* ---- the calls of several threads, interleaved at the accesses to the
\* ---- field: ref_count++ and ref_count-- are a load and a store.
RefLoad(t) ==
  /\ Idle(t)
  /\ held[t] > 0
  /\ RefsStarted < MaxRefs
  /\ \E v \in ReadRefCount : treg' = [treg EXCEPT ![t] = v]
  /\ tpc' = [tpc EXCEPT ![t] = "ref_store"]
  /\ UNCHANGED <<ref_count, freed, refs, unrefs, held>>
  /\ UNCHANGED <<parseVars, foreachVars, printVars, queryVars, pointVars, curveVars>>

RefStore(t) ==
  /\ tpc[t] = "ref_store"
  /\ ref_count' = ref_incr(treg[t])
  /\ refs' = refs + 1
  /\ held' = [held EXCEPT ![t] = @ + 1]
  /\ tpc' = [tpc EXCEPT ![t] = "idle"]
  /\ UNCHANGED <<freed, unrefs, treg>>
  /\ UNCHANGED <<parseVars, foreachVars, printVars, queryVars, pointVars, curveVars>>

\* g_return_if_fail (self->ref_count > 0); the caller gives its reference up
UnrefCheck(t) ==
  /\ Idle(t)
  /\ held[t] > 0
  /\ held' = [held EXCEPT ![t] = @ - 1]
  /\ \E v \in ReadRefCount :
        IF unref_check(v)
        THEN /\ tpc' = [tpc EXCEPT ![t] = "unref_load"]
             /\ UNCHANGED unrefs
        ELSE /\ unrefs' = unrefs + 1
             /\ UNCHANGED tpc
  /\ UNCHANGED <<ref_count, freed, refs, treg>>
  /\ UNCHANGED <<parseVars, foreachVars, printVars, queryVars, pointVars, curveVars>>

UnrefLoad(t) ==
  /\ tpc[t] = "unref_load"
  /\ \E v \in ReadRefCount : treg' = [treg EXCEPT ![t] = v]
  /\ tpc' = [tpc EXCEPT ![t] = "unref_store"]
  /\ UNCHANGED <<ref_count, freed, refs, unrefs, held>>
  /\ UNCHANGED <<parseVars, foreachVars, printVars, queryVars, pointVars, curveVars>>

UnrefStore(t) ==
  /\ tpc[t] = "unref_store"
  /\ ref_count' = unref_decr(treg[t])
  /\ treg' = [treg EXCEPT ![t] = unref_decr(@)]
  /\ tpc' = [tpc EXCEPT ![t] = "unref_test"]
  /\ UNCHANGED <<freed, refs, unrefs, held>>
  /\ UNCHANGED <<parseVars, foreachVars, printVars, queryVars, pointVars, curveVars>>

\* if (self->ref_count > 0) return; g_free (self); the test is on the value
\* just stored, kept in the register or read again.
UnrefTest(t) ==
  /\ tpc[t] = "unref_test"
  /\ \E v \in {treg[t]} \cup ReadRefCount :
        freed' = IF unref_keeps(v) THEN freed ELSE freed + 1
  /\ unrefs' = unrefs + 1
  /\ tpc' = [tpc EXCEPT ![t] = "idle"]
  /\ UNCHANGED <<ref_count, refs, treg, held>>
  /\ UNCHANGED <<parseVars, foreachVars, printVars, queryVars, pointVars, curveVars>>

InitRef == ParseInit(<<>>) /\ PathNew /\ ForeachIdle /\ PrintIdle /\ QueryIdle /\ PointIdle /\ CurveIdle

NextRefSeq ==
  \/ \E t \in Threads : SeqRef(t)
  \/ \E t \in Threads : SeqUnref(t)
  \/ \E t, u \in Threads : Give(t, u)

SpecRefSeq == InitRef /\ [][NextRefSeq]_vars

NextRefConc ==
  \/ \E t \in Threads : RefLoad(t)
  \/ \E t \in Threads : RefStore(t)
  \/ \E t \in Threads : UnrefCheck(t)
  \/ \E t \in Threads : UnrefLoad(t)
  \/ \E t \in Threads : UnrefStore(t)
  \/ \E t \in Threads : UnrefTest(t)
  \/ \E t, u \in Threads : Give(t, u)

SpecRefConc == InitRef /\ [][NextRefConc]_vars

\* C5: with the calls of several owners interleaved, once every call has
\* returned the count is 1 + refs - unrefs, and the path has been freed
\* exactly once if that is zero and not at all otherwise.
C5_ConcurrentCountExact ==
  (\A t \in Threads : Idle(t)) =>
     /\ freed = 0 => ref_count = 1 + refs - unrefs
     /\ freed <= 1
     /\ freed = 1 <=> 1 + refs - unrefs = 0

\* C6: with the calls made one after another, the path is freed by the
\* unref that makes unrefs = refs + 1 and by no other, the count being zero
\* then, and while the path is alive the count is 1 + refs - unrefs >= 1.
C6_DestroyedExactlyAtZero ==
  /\ freed \in {0, 1}
  /\ freed = 0 => (ref_count >= 1 /\ ref_count = 1 + refs - unrefs)
  /\ freed = 1 <=> unrefs = refs + 1
  /\ freed = 1 => ref_count = 0

\* The path destroyed after several references were taken and dropped.
C6_Witness ==
  /\ freed = 1
  /\ ref_count = 0
  /\ refs >= 2
  /\ unrefs = refs + 1

(***************************************************************************)
(* Paths.  A path is the sequence of its contours and a contour the        *)
(* sequence of the operations its foreach produces: [op, pts] with pts the *)
(* points handed to a GskPathForeachFunc (the start point first).  Points  *)
(* are pairs of integers.                                                  *)
(***************************************************************************)
Op(op, pts) == [op |-> op, pts |-> pts]

ContourTriangle ==
  << Op("MOVE", << <<0, 0>> >>),
     Op("LINE", << <<0, 0>>, <<3, 0>> >>),
     Op("LINE", << <<3, 0>>, <<3, -6>> >>),
     Op("CLOSE", << <<3, -6>>, <<0, 0>> >>) >>

ContourQuad ==
  << Op("MOVE", << <<-12, 3>> >>),
     Op("QUAD", << <<-12, 3>>, <<0, 6>>, <<30, 9>> >>) >>

ContourCubic ==
  << Op("MOVE", << <<3, 3>> >>),
     Op("CUBIC", << <<3, 3>>, <<6, 9>>, <<12, 9>>, <<15, 3>> >>),
     Op("LINE", << <<15, 3>>, <<15, 0>> >>),
     Op("CLOSE", << <<15, 0>>, <<3, 3>> >>) >>

ContourArc ==
  << Op("MOVE", << <<6, 0>> >>),
     Op("ARC", << <<6, 0>>, <<9, 3>>, <<6, 6>> >>) >>

ContourPoint ==
  << Op("MOVE", << <<9, -3>> >>) >>

ContourMixed ==
  << Op("MOVE", << <<0, 9>> >>),
     Op("QUAD", << <<0, 9>>, <<3, 12>>, <<6, 9>> >>),
     Op("CUBIC", << <<6, 9>>, <<9, 6>>, <<12, 12>>, <<15, 9>> >>),
     Op("ARC", << <<15, 9>>, <<18, 12>>, <<21, 9>> >>),
     Op("CLOSE", << <<21, 9>>, <<0, 9>> >>) >>

ContourSet ==
  {ContourTriangle, ContourQuad, ContourCubic, ContourArc, ContourPoint,
   ContourMixed}

MaxContours == 2

\* the paths of n contours at most that gsk_path_foreach is called on
ForeachContourSet ==
  {ContourTriangle, ContourQuad, ContourCubic, ContourArc, ContourPoint}

Paths(n) == UNION { [1..k -> ForeachContourSet] : k \in 0..n }

(***************************************************************************)
(* gsk_path_foreach_with_tolerance.  One step per operation that           *)
(* gsk_contour_foreach hands to func, which is the caller's func or the    *)
(* trampoline; the caller's func answers TRUE or FALSE as it likes.        *)
(***************************************************************************)
ALLOW_ANY == {"QUAD", "CUBIC", "ARC"}

MaxPieces == 2

\* Every kind taken as allowed.
allows_everything(flags, f) == TRUE

\* trampoline->flags & GSK_PATH_FOREACH_ALLOW_f
allows(flags, f) == f \in flags

\* The loop going on whatever gsk_contour_foreach returned.
foreach_never_stops(ok) == FALSE

\* if (!gsk_contour_foreach (...)) return FALSE;
foreach_stops(ok) == ~ok

\* the cubic the trampoline makes of a quadratic: pts[0],
\* (pts[0] + 2 pts[1]) / 3, (pts[2] + 2 pts[1]) / 3, pts[2]
\* Two thirds of the end point and one third of the control point
Third_of_control(a, b) == <<(2 * a[1] + b[1]) \div 3, (2 * a[2] + b[2]) \div 3>>

Third(a, b) == <<(a[1] + 2 * b[1]) \div 3, (a[2] + 2 * b[2]) \div 3>>

QuadAsCubic(o) ==
  Op("CUBIC", <<o.pts[1], Third(o.pts[1], o.pts[2]),
                Third(o.pts[3], o.pts[2]), o.pts[3]>>)

\* What the trampoline does with the operation o: [call, op], call being
\* "func" (return trampoline->func (op, ...)) or the decomposition it returns.
Plan(call, o) == [call |-> call, op |-> o]

gsk_path_foreach_trampoline(flags, o) ==
  CASE o.op \in {"MOVE", "CLOSE", "LINE"} -> Plan("func", o)
    [] o.op = "QUAD" ->
         IF allows(flags, "QUAD") THEN Plan("func", o)
         ELSE IF allows(flags, "CUBIC") THEN Plan("func", QuadAsCubic(o))
         ELSE Plan("gsk_curve_decompose", o)
    [] o.op = "CUBIC" ->
         IF allows(flags, "CUBIC") THEN Plan("func", o)
         ELSE IF allows(flags, "QUAD") THEN Plan("gsk_curve_decompose_curve", o)
         ELSE Plan("gsk_curve_decompose", o)
    [] o.op = "ARC" ->
         IF allows(flags, "ARC") THEN Plan("func", o)
         ELSE IF allows(flags, "CUBIC") \/ allows(flags, "QUAD")
         THEN Plan("gsk_curve_decompose_curve", o)
         ELSE Plan("gsk_curve_decompose", o)

\* The caller's func handed to gsk_contour_foreach as it is.
foreach_func_direct(flags, o) == Plan("func", o)

\* func as gsk_path_foreach_with_tolerance hands it to gsk_contour_foreach:
\* the trampoline unless (flags & ALLOW_ANY) == ALLOW_ANY
foreach_func(flags, o) ==
  IF (flags \cap ALLOW_ANY) # ALLOW_ANY
  THEN gsk_path_foreach_trampoline(flags, o)
  ELSE Plan("func", o)

\* gsk_curve_decompose: one line or more; the points of the pieces are
\* not modelled.
gsk_curve_decompose ==
  { [k \in 1..n |-> Op("LINE", <<>>)] : n \in 1..MaxPieces }

\* gsk_curve_decompose_curve: one piece or more, each a line or a curve of
\* a kind that flags allows.
gsk_curve_decompose_curve(flags) ==
  UNION { { [k \in 1..n |-> Op(kinds[k], <<>>)] :
              kinds \in [1..n -> {"LINE"} \cup (flags \cap ALLOW_ANY)] } :
          n \in 1..MaxPieces }

\* The operations a plan offers to the caller's func, in order.
Offers(plan, flags) ==
  CASE plan.call = "func" -> { <<plan.op>> }
    [] plan.call = "gsk_curve_decompose" -> gsk_curve_decompose
    [] plan.call = "gsk_curve_decompose_curve" -> gsk_curve_decompose_curve(flags)

\* The invocations of the caller's func made for the offers ps of the
\* operation j of contour i, when it answers FALSE at the invocation stop
\* (stop = 0: at none): a FALSE is returned at once, by the trampoline and
\* by the decompositions.
Invocations(ps, stop, i, j) ==
  [k \in 1..(IF stop = 0 THEN Len(ps) ELSE stop) |->
     [op |-> ps[k].op, pts |-> ps[k].pts, ret |-> (k # stop),
      i |-> i, j |-> j, k |-> k, n |-> Len(ps)]]

ForeachInit ==
  /\ fe_path \in Paths(MaxContours)
  /\ fe_flags \in SUBSET ALLOW_ANY
  /\ fe_i = 1 /\ fe_j = 1
  /\ fe_pc = "loop"
  /\ fe_ok = TRUE
  /\ fe_log = <<>>
  /\ fe_ret = "none"

\* for (i = 0; i < self->n_contours; i++): gsk_contour_foreach is called
ForeachCall ==
  /\ fe_pc = "loop"
  /\ fe_i <= Len(fe_path)
  /\ fe_pc' = "contour"
  /\ fe_j' = 1
  /\ UNCHANGED <<fe_path, fe_flags, fe_i, fe_ok, fe_log, fe_ret>>
  /\ UNCHANGED <<parseVars, refVars, printVars, queryVars, pointVars, curveVars>>

\* gsk_contour_foreach hands its next operation to func and returns FALSE
\* when func does.
ContourOp ==
  /\ fe_pc = "contour"
  /\ fe_j <= Len(fe_path[fe_i])
  /\ \E ps \in Offers(foreach_func(fe_flags, fe_path[fe_i][fe_j]), fe_flags) :
       \E stop \in 0..Len(ps) :
          /\ fe_log' = fe_log \o Invocations(ps, stop, fe_i, fe_j)
          /\ IF stop = 0
             THEN /\ fe_j' = fe_j + 1
                  /\ UNCHANGED <<fe_pc, fe_ok>>
             ELSE /\ fe_pc' = "returned"
                  /\ fe_ok' = FALSE
                  /\ UNCHANGED fe_j
  /\ UNCHANGED <<fe_path, fe_flags, fe_i, fe_ret>>
  /\ UNCHANGED <<parseVars, refVars, printVars, queryVars, pointVars, curveVars>>

\* gsk_contour_foreach has handed over its last operation: it returns TRUE
ContourDone ==
  /\ fe_pc = "contour"
  /\ fe_j > Len(fe_path[fe_i])
  /\ fe_pc' = "returned"
  /\ fe_ok' = TRUE
  /\ UNCHANGED <<fe_path, fe_flags, fe_i, fe_j, fe_log, fe_ret>>
  /\ UNCHANGED <<parseVars, refVars, printVars, queryVars, pointVars, curveVars>>

\* if (!gsk_contour_foreach (...)) return FALSE; else i++
ForeachTest ==
  /\ fe_pc = "returned"
  /\ IF foreach_stops(fe_ok)
     THEN /\ fe_ret' = "FALSE"
          /\ fe_pc' = "done"
          /\ UNCHANGED fe_i
     ELSE /\ fe_i' = fe_i + 1
          /\ fe_pc' = "loop"
          /\ UNCHANGED fe_ret
  /\ UNCHANGED <<fe_path, fe_flags, fe_j, fe_ok, fe_log>>
  /\ UNCHANGED <<parseVars, refVars, printVars, queryVars, pointVars, curveVars>>

\* the loop is over: return TRUE
ForeachReturn ==
  /\ fe_pc = "loop"
  /\ fe_i > Len(fe_path)
  /\ fe_ret' = "TRUE"
  /\ fe_pc' = "done"
  /\ UNCHANGED <<fe_path, fe_flags, fe_i, fe_j, fe_ok, fe_log>>
  /\ UNCHANGED <<parseVars, refVars, printVars, queryVars, pointVars, curveVars>>

InitForeach == ParseInit(<<>>) /\ PathNew /\ ForeachInit /\ PrintIdle /\ QueryIdle /\ PointIdle /\ CurveIdle

NextForeach ==
  \/ ForeachCall
  \/ ContourOp
  \/ ContourDone
  \/ ForeachTest
  \/ ForeachReturn

SpecForeach == InitForeach /\ [][NextForeach]_vars

\* the invocation k of the caller's func comes no later in the path than
\* the invocation l
InPathOrder(a, b) ==
  \/ a.i < b.i
  \/ a.i = b.i /\ a.j < b.j
  \/ a.i = b.i /\ a.j = b.j /\ a.k < b.k

AllTrue(log) == \A k \in 1..Len(log) : log[k].ret

\* C7: the caller's func is invoked in the order of the contours and never
\* again once it returned FALSE, and then the call returns FALSE; the call
\* returns TRUE when func never returned FALSE, every operation of every
\* contour having been handed over.
C7_ShortCircuit ==
  /\ \A k \in 1..(Len(fe_log) - 1) :
        fe_log[k].ret /\ InPathOrder(fe_log[k], fe_log[k + 1])
  /\ fe_ret = "FALSE" => (fe_log # <<>> /\ ~fe_log[Len(fe_log)].ret)
  /\ fe_ret = "TRUE" =>
        /\ AllTrue(fe_log)
        /\ \A i \in 1..Len(fe_path) : \A j \in 1..Len(fe_path[i]) :
              \E k \in 1..Len(fe_log) : fe_log[k].i = i /\ fe_log[k].j = j
  /\ (fe_pc = "done" /\ fe_ret # "none" /\ AllTrue(fe_log)) => fe_ret = "TRUE"

\* FALSE returned in the middle of a decomposed curve, with operations of
\* the contour and another contour still to come.
C7_Witness ==
  /\ fe_ret = "FALSE"
  /\ Len(fe_log) >= 2
  /\ fe_log[Len(fe_log)].k < fe_log[Len(fe_log)].n
  /\ fe_log[Len(fe_log)].j < Len(fe_path[fe_log[Len(fe_log)].i])
  /\ fe_log[Len(fe_log)].i < Len(fe_path)

\* C8: every operation the caller's func receives is a MOVE, a LINE or a
\* CLOSE, or a QUAD, CUBIC or ARC that flags allows.
C8_OnlyAllowedKinds ==
  \A k \in 1..Len(fe_log) :
     fe_log[k].op \in {"MOVE", "LINE", "CLOSE"} \cup (fe_flags \cap ALLOW_ANY)

\* A path with a cubic and an arc walked to its end with flags = 0: both
\* reach the caller's func as lines.
C8_Witness ==
  /\ fe_ret = "TRUE"
  /\ fe_flags = {}
  /\ \A kind \in {"CUBIC", "ARC"} :
        \E k \in 1..Len(fe_log) :
           /\ fe_path[fe_log[k].i][fe_log[k].j].op = kind
           /\ fe_log[k].op = "LINE"

(***************************************************************************)
(* gsk_path_print and gsk_path_to_string, and the way back through         *)
(* gsk_path_parse and the builder.                                         *)
(***************************************************************************)
PointChars(pt) == IntChars(pt[1]) \o <<" ">> \o IntChars(pt[2])

\* One operation of a standard contour as gsk_contour_print writes it
OpChars(o) ==
  CASE o.op = "MOVE"  -> <<"M", " ">> \o PointChars(o.pts[1])
    [] o.op = "CLOSE" -> <<" ", "Z">>
    [] o.op = "LINE"  -> <<" ", "L", " ">> \o PointChars(o.pts[2])
    [] o.op = "QUAD"  -> <<" ", "Q", " ">> \o PointChars(o.pts[2]) \o <<",", " ">>
                         \o PointChars(o.pts[3])
    [] o.op = "CUBIC" -> <<" ", "C", " ">> \o PointChars(o.pts[2]) \o <<",", " ">>
                         \o PointChars(o.pts[3]) \o <<",", " ">>
                         \o PointChars(o.pts[4])
    [] o.op = "ARC"   -> <<" ", "E", " ">> \o PointChars(o.pts[2]) \o <<",", " ">>
                         \o PointChars(o.pts[3])

RECURSIVE gsk_contour_print(_)
gsk_contour_print(contour) ==
  IF contour = <<>> THEN <<>>
  ELSE OpChars(Head(contour)) \o gsk_contour_print(Tail(contour))

\* A space written before every contour.
print_separator_always(i) == <<" ">>

\* if (i > 0) g_string_append_c (string, ' '); i is counted from 1 here
print_separator(i) == IF i > 1 THEN <<" ">> ELSE <<>>

\* the loop of gsk_path_print from contour i on, appending to string
RECURSIVE gsk_path_print_from(_, _, _)
gsk_path_print_from(self, i, string) ==
  IF i > Len(self) THEN string
  ELSE gsk_path_print_from(self, i + 1,
         string \o print_separator(i) \o gsk_contour_print(self[i]))

gsk_path_print(self, string) == gsk_path_print_from(self, 1, string)

gsk_path_to_string(self) == gsk_path_print(self, <<>>)

gsk_path_is_empty(self) == Len(self) = 0

\* gsk_path_builder_add_path: the contours of path after those added before
gsk_path_builder_add_path(contours, path) == contours \o path

\* The builder at work on the calls the parser made: done are the finished
\* contours, cur the operations of the contour under way and pt the
\* current point.  A drawing call with no contour under way starts one at
\* the current point.
Ensure(cur, pt) == IF cur = <<>> THEN <<Op("MOVE", <<pt>>)>> ELSE cur

Finish(done, cur) == IF cur = <<>> THEN done ELSE Append(done, cur)

BuilderStep(b, c) ==
  CASE c.op = "move_to" ->
         [done |-> Finish(b.done, b.cur),
          cur |-> <<Op("MOVE", << <<c.args[1], c.args[2]>> >>)>>,
          pt |-> <<c.args[1], c.args[2]>>]
    [] c.op = "line_to" ->
         [b EXCEPT !.cur = Append(Ensure(b.cur, b.pt),
                                  Op("LINE", <<b.pt, <<c.args[1], c.args[2]>> >>)),
                   !.pt = <<c.args[1], c.args[2]>>]
    [] c.op = "quad_to" ->
         [b EXCEPT !.cur = Append(Ensure(b.cur, b.pt),
                                  Op("QUAD", <<b.pt, <<c.args[1], c.args[2]>>,
                                               <<c.args[3], c.args[4]>> >>)),
                   !.pt = <<c.args[3], c.args[4]>>]
    [] c.op = "cubic_to" ->
         [b EXCEPT !.cur = Append(Ensure(b.cur, b.pt),
                                  Op("CUBIC", <<b.pt, <<c.args[1], c.args[2]>>,
                                                <<c.args[3], c.args[4]>>,
                                                <<c.args[5], c.args[6]>> >>)),
                   !.pt = <<c.args[5], c.args[6]>>]
    [] c.op = "arc_to" ->
         [b EXCEPT !.cur = Append(Ensure(b.cur, b.pt),
                                  Op("ARC", <<b.pt, <<c.args[1], c.args[2]>>,
                                              <<c.args[3], c.args[4]>> >>)),
                   !.pt = <<c.args[3], c.args[4]>>]
    [] c.op = "svg_arc_to" ->
         [b EXCEPT !.cur = Append(Ensure(b.cur, b.pt),
                                  Op("SVG_ARC", <<b.pt, <<c.args[6], c.args[7]>> >>)),
                   !.pt = <<c.args[6], c.args[7]>>]
    [] c.op = "close" ->
         IF b.cur = <<>> THEN b
         ELSE [done |-> Append(b.done,
                               Append(b.cur, Op("CLOSE", <<b.pt, b.cur[1].pts[1]>>))),
               cur |-> <<>>,
               pt |-> b.cur[1].pts[1]]

RECURSIVE BuilderRun(_, _)
BuilderRun(b, calls) ==
  IF calls = <<>> THEN b ELSE BuilderRun(BuilderStep(b, Head(calls)), Tail(calls))

BuilderEnd(b) == Finish(b.done, b.cur)

gsk_path_builder_free_to_path(calls) ==
  BuilderEnd(BuilderRun([done |-> <<>>, cur |-> <<>>, pt |-> <<0, 0>>], calls))

\* collect_path: the operations of gsk_path_foreach with every flag set
collect_path(path) == Flatten(path)

\* graphene_point_near with epsilon = 1 / EpsilonInverse
EpsilonInverse == 1024

Abs(v) == IF v < 0 THEN 0 - v ELSE v

graphene_point_near(a, b) ==
  /\ EpsilonInverse * Abs(a[1] - b[1]) < 1
  /\ EpsilonInverse * Abs(a[2] - b[2]) < 1

path_operation_equal(p1, p2) ==
  /\ p1.op = p2.op
  /\ CASE p1.op = "MOVE" -> graphene_point_near(p1.pts[1], p2.pts[1])
       [] p1.op \in {"LINE", "CLOSE"} -> graphene_point_near(p1.pts[2], p2.pts[2])
       [] p1.op \in {"QUAD", "ARC"} ->
            /\ graphene_point_near(p1.pts[2], p2.pts[2])
            /\ graphene_point_near(p1.pts[3], p2.pts[3])
       [] p1.op = "CUBIC" ->
            /\ graphene_point_near(p1.pts[2], p2.pts[2])
            /\ graphene_point_near(p1.pts[3], p2.pts[3])
            /\ graphene_point_near(p1.pts[4], p2.pts[4])
       [] OTHER -> FALSE

\* assert_path_equal_with_epsilon on the collected operations
PathOpsEqual(ops1, ops2) ==
  /\ Len(ops1) = Len(ops2)
  /\ \A k \in 1..Len(ops1) : path_operation_equal(ops1[k], ops2[k])

\* the path test_create builds of pr_a and pr_b
Built ==
  gsk_path_builder_add_path(gsk_path_builder_add_path(<<>>, pr_a), pr_b)

PrintInit ==
  /\ \E n \in 0..MaxContours : \E m \in 0..(MaxContours - n) :
        /\ pr_a \in [1..n -> ContourSet]
        /\ pr_b \in [1..m -> ContourSet]
  /\ pr_pc = "start"
  /\ pr_s = <<>>
  /\ pr_parsed = [ret |-> "none", calls |-> <<>>]

\* s = gsk_path_to_string (built)
PathToString ==
  /\ pr_pc = "start"
  /\ pr_s' = gsk_path_to_string(Built)
  /\ pr_pc' = "printed"
  /\ UNCHANGED <<pr_a, pr_b, pr_parsed>>
  /\ UNCHANGED <<parseVars, refVars, foreachVars, queryVars, pointVars, curveVars>>

\* path2 = gsk_path_parse (s)
ParseBack ==
  /\ pr_pc = "printed"
  /\ pr_parsed' = gsk_path_parse(pr_s)
  /\ pr_pc' = "parsed"
  /\ UNCHANGED <<pr_a, pr_b, pr_s>>
  /\ UNCHANGED <<parseVars, refVars, foreachVars, queryVars, pointVars, curveVars>>

InitPrint == ParseInit(<<>>) /\ PathNew /\ ForeachIdle /\ PrintInit /\ QueryIdle /\ PointIdle /\ CurveIdle

NextPrint == PathToString \/ ParseBack

SpecPrint == InitPrint /\ [][NextPrint]_vars

\* C9: the string of a path parses, and the path the builder makes of the
\* parser's calls has the operations of the path printed: as many, of the
\* same kinds, with points equal within 1/1024.
C9_RoundTrip ==
  pr_pc = "parsed" =>
     /\ pr_parsed.ret = "path"
     /\ PathOpsEqual(collect_path(Built),
                     collect_path(gsk_path_builder_free_to_path(pr_parsed.calls)))

\* Two contours with every kind of operation, printed and parsed back.
C9_Witness ==
  /\ pr_pc = "parsed"
  /\ pr_parsed.ret = "path"
  /\ pr_a = <<ContourMixed>>
  /\ pr_b = <<ContourTriangle>>
  /\ Len(pr_parsed.calls) = 9

\* the strings of the contours of a path with one space between two:
\* none before the first, none after the last
RECURSIVE JoinContours(_)
JoinContours(path) ==
  IF path = <<>> THEN <<>>
  ELSE IF Len(path) = 1 THEN gsk_contour_print(path[1])
  ELSE gsk_contour_print(path[1]) \o <<" ">> \o JoinContours(Tail(path))

\* C10: the string of the path built of A then B is the string of A, one
\* space exactly when neither is empty, and the string of B; the contours
\* are written in order with one space between two and none at the ends.
C10_PrintConcatenation ==
  pr_pc # "start" =>
     /\ pr_s = gsk_path_to_string(pr_a)
               \o (IF ~gsk_path_is_empty(pr_a) /\ ~gsk_path_is_empty(pr_b)
                   THEN <<" ">> ELSE <<>>)
               \o gsk_path_to_string(pr_b)
     /\ pr_s = JoinContours(Built)
     /\ pr_s # <<>> => (pr_s[1] # " " /\ pr_s[Len(pr_s)] # " ")

\* Two paths, neither empty, printed as one.
C10_Witness ==
  /\ pr_pc = "printed"
  /\ ~gsk_path_is_empty(pr_a)
  /\ ~gsk_path_is_empty(pr_b)
  /\ pr_s = gsk_contour_print(pr_a[1]) \o <<" ">> \o gsk_contour_print(pr_b[1])

(***************************************************************************)
(* White space.  The string of the tokens with one more white-space        *)
(* character put in after the token k (k = 0: before the first token;      *)
(* k = Len(ts): after the last), and gsk_path_parse run on it.             *)
(***************************************************************************)
WhiteSpace == {" ", "\n"}

RenderSpaced(ts, k, w) ==
  RenderTokens(SubSeq(ts, 1, k)) \o <<w>> \o RenderTokens(SubSeq(ts, k + 1, Len(ts)))

\* The number of chunks that follow the leading M or m in a spaced string.
MaxSpacedChunks == 1

SpacedInputs ==
  {<<>>} \cup
  { Flatten(<<m>> \o cs) : m \in MoveChunks, cs \in ChunkSeqs(MaxSpacedChunks) }

InitSpaced ==
  /\ \E ts \in SpacedInputs : \E k \in 0..Len(ts) : \E w \in WhiteSpace :
        ParseInitOn(ts, RenderSpaced(ts, k, w))
  /\ PathNew /\ ForeachIdle /\ PrintIdle /\ QueryIdle /\ PointIdle /\ CurveIdle

SpecSpaced == InitSpaced /\ [][NextParse]_vars

\* C11: when the string of the tokens is accepted, the string with one
\* more white-space character before, between or after the tokens is
\* accepted too, with the same calls on the builder.
C11_WhitespaceTolerant ==
  (ppc = "done" /\ gsk_path_parse(RenderTokens(tokens)).ret = "path") =>
     /\ ret = "path"
     /\ builder = gsk_path_parse(RenderTokens(tokens)).calls

(***************************************************************************)
(* Smooth curves and relative coordinates, stated on a pass of the loop:   *)
(* in the state before it cmd is the previous command, <<x, y>> the        *)
(* current point and the last call on the builder the previous segment.    *)
(***************************************************************************)
LastCall(calls) == calls[Len(calls)]

\* C12: S/s takes as first control point the reflection of the second
\* control point of the previous cubic about the current point when the
\* previous command was C, c, S or s, else the current point; T/t takes
\* the reflection of the control point of the previous quadratic when the
\* previous command was Q, q, T or t, else the current point.
C12_SmoothReflection ==
  [][ (ppc = "loop" /\ ppc' = "loop" /\ cmd' \in {"S", "s", "T", "t"}) =>
        IF cmd' \in {"S", "s"}
        THEN /\ LastCall(builder').op = "cubic_to"
             /\ <<LastCall(builder').args[1], LastCall(builder').args[2]>> =
                  IF cmd \in {"C", "c", "S", "s"}
                  THEN <<2 * x - LastCall(builder).args[3],
                         2 * y - LastCall(builder).args[4]>>
                  ELSE <<x, y>>
        ELSE /\ LastCall(builder').op = "quad_to"
             /\ <<LastCall(builder').args[1], LastCall(builder').args[2]>> =
                  IF cmd \in {"Q", "q", "T", "t"}
                  THEN <<2 * x - LastCall(builder).args[1],
                         2 * y - LastCall(builder).args[2]>>
                  ELSE <<x, y>>
    ]_vars

\* A repeated S after an S: its first control point is the reflection of
\* the second control point of the cubic before, and not the current point.
C12_Witness ==
  /\ ppc = "loop"
  /\ cmd \in {"S", "s"} /\ prev_cmd = cmd /\ repeat
  /\ Len(builder) >= 3
  /\ builder[Len(builder) - 1].op = "cubic_to"
  /\ LastCall(builder).args[1] =
       2 * builder[Len(builder) - 1].args[5] - builder[Len(builder) - 1].args[3]
  /\ LastCall(builder).args[1] # builder[Len(builder) - 1].args[5]

\* the parsers of the arguments of a command, and the upper-case letter
CommandArgs(c) ==
  CASE c \in {"M", "m", "L", "l", "T", "t"} -> <<"pair">>
    [] c \in {"H", "h", "V", "v"} -> <<"coordinate">>
    [] c \in {"C", "c"} -> <<"pair", "pair", "pair">>
    [] c \in {"S", "s", "Q", "q", "E", "e"} -> <<"pair", "pair">>
    [] c \in {"A", "a"} ->
         <<"nonnegative", "nonnegative", "number", "flag", "flag", "pair">>

LowerLetters == {"m", "l", "h", "v", "c", "s", "q", "t", "a", "e"}

Upper(c) ==
  CASE c = "m" -> "M" [] c = "l" -> "L" [] c = "h" -> "H" [] c = "v" -> "V"
    [] c = "c" -> "C" [] c = "s" -> "S" [] c = "q" -> "Q" [] c = "t" -> "T"
    [] c = "a" -> "A" [] c = "e" -> "E"

\* the arguments d of the lower-case letter c with the current point
\* <<cx, cy>> added: to every pair, to the x of h, to the y of v, and for a
\* to the end point only
Shifted(c, d, cx, cy) ==
  [k \in 1..Len(d) |->
     d[k] + (CASE c = "h" -> cx
               [] c = "v" -> cy
               [] c = "a" -> (IF k = 6 THEN cx ELSE IF k = 7 THEN cy ELSE 0)
               [] OTHER   -> (IF k % 2 = 1 THEN cx ELSE cy))]

\* the arguments read in the pass that starts at position i with command c
ArgsRead(s, i, c, c1) ==
  parse_args(s, CommandArgs(c1), parse_from(parse_command(s, i, c).p)).v

\* the end point of the command c1 with the arguments d, from <<cx, cy>>
EndPoint(c1, d, cx, cy) ==
  CASE c1 = "H" -> <<d[1], cy>>
    [] c1 = "V" -> <<cx, d[1]>>
    [] OTHER    -> <<d[Len(d) - 1], d[Len(d)]>>

\* C13: a lower-case command with the arguments d makes the calls of the
\* upper-case command with the arguments d + current point, and after a
\* command with arguments the current point is its end point.
C13_RelativeCoordinates ==
  [][ (ppc = "loop" /\ ppc' = "loop" /\ cmd' \notin {"Z", "z"}) =>
        \A d \in {ArgsRead(input, p, cmd, cmd')} :
        \A abs \in {IF cmd' \in LowerLetters THEN Shifted(cmd', d, x, y) ELSE d} :
        \A up \in {IF cmd' \in LowerLetters THEN Upper(cmd') ELSE cmd'} :
        \A twin \in {RenderTokens(Nums(abs))} :
          /\ SubSeq(builder', Len(builder) + 1, Len(builder')) =
               parse_switch(twin, 1, up, cmd, repeat', ParseLocals).calls
          /\ <<x', y'>> = EndPoint(up, abs, x, y)
    ]_vars

\* A relative arc read away from the origin: radii, rotation and flags as
\* written, the end point offset by the current point.
C13_Witness ==
  /\ ppc = "loop"
  /\ cmd = "a"
  /\ LastCall(builder) = Call("svg_arc_to", <<1, 2, 0, 0, 1, 6, 8>>)
  /\ <<x, y>> = <<6, 8>>

(***************************************************************************)
(* The queries on a path.  A contour is here what the gsk_contour_* calls  *)
(* of gskpath.c return for it: its flags, its bounding box, its stroke     *)
(* bounds with whether it reports any, its winding number around the test  *)
(* point and its number of operations.                                     *)
(***************************************************************************)
Box(x0, y0, x1, y1) == [min |-> <<x0, y0>>, max |-> <<x1, y1>>]

Contour(flags, bounds, reports, winding, n_ops, closest) ==
  [flags |-> flags, bounds |-> bounds, reports |-> reports,
   winding |-> winding, n_ops |-> n_ops, closest |-> closest]

\* the point of a contour closest to the test point: how far, and where
Closest(distance, idx, t) == [distance |-> distance, idx |-> idx, t |-> t]

\* A closed triangle around the test point, a closed curve around it in
\* the other direction, an open polyline away from it, a single point with
\* no stroke bounds to report, and an open curve that goes round twice.
QueryContourSet ==
  { Contour({"CLOSED", "FLAT"}, Box(0, 0, 4, 4), TRUE, 1, 4, Closest(2, 2, 1)),
    Contour({"CLOSED"}, Box(1, 1, 6, 3), TRUE, 0 - 1, 3, Closest(1, 1, 0)),
    Contour({"FLAT"}, Box(0 - 3, 5, 0 - 1, 7), TRUE, 0, 3, Closest(5, 2, 0)),
    Contour({"CLOSED", "FLAT"}, Box(2, 2, 2, 2), FALSE, 0, 2, Closest(2, 1, 0)),
    Contour({}, Box(0 - 2, 0 - 2, 5, 5), TRUE, 2, 5, Closest(3, 4, 1)) }

gsk_contour_get_flags(contour) == contour.flags

gsk_contour_get_bounds(contour) == contour.bounds

gsk_contour_get_winding(contour) == contour.winding

gsk_contour_get_n_ops(contour) == contour.n_ops

\* the stroke: half a line width of 2 on every side
StrokeBox(contour) ==
  Box(contour.bounds.min[1] - 1, contour.bounds.min[2] - 1,
      contour.bounds.max[1] + 1, contour.bounds.max[2] + 1)

\* gsk_contour_get_stroke_bounds: the return value and *bounds, which keeps
\* what it held when the contour reports none
gsk_contour_get_stroke_bounds(contour, held_before) ==
  IF contour.reports THEN [ret |-> TRUE, b |-> StrokeBox(contour)]
  ELSE [ret |-> FALSE, b |-> held_before]

\* what a GskBoundingBox on the stack can hold before it is written
Uninitialized == { Box(0, 0, 0, 0), Box(0 - 9, 0 - 9, 9, 9) }

Min2(a, b) == IF a < b THEN a ELSE b

Max2(a, b) == IF a > b THEN a ELSE b

gsk_bounding_box_union(a, b) ==
  Box(Min2(a.min[1], b.min[1]), Min2(a.min[2], b.min[2]),
      Max2(a.max[1], b.max[1]), Max2(a.max[2], b.max[2]))

gsk_bounding_box_to_rect(b) ==
  [x |-> b.min[1], y |-> b.min[2],
   width |-> b.max[1] - b.min[1], height |-> b.max[2] - b.min[2]]

graphene_rect_zero == [x |-> 0, y |-> 0, width |-> 0, height |-> 0]

\* The standard contour of a sequence of operations: closed when it ends in
\* a CLOSE, flat when it has lines only, bounded by the box of its points;
\* the test point lies outside, 9 away from its start.
PointsOf(ops) == UNION { { o.pts[k] : k \in 1..Len(o.pts) } : o \in { ops[i] : i \in 1..Len(ops) } }

SetMin(S) == CHOOSE v \in S : \A w \in S : v <= w

SetMax(S) == CHOOSE v \in S : \A w \in S : v >= w

gsk_standard_contour_new(ops) ==
  Contour((IF ops[Len(ops)].op = "CLOSE" THEN {"CLOSED"} ELSE {}) \cup
          (IF \A i \in 1..Len(ops) : ops[i].op \in {"MOVE", "LINE", "CLOSE"}
           THEN {"FLAT"} ELSE {}),
          Box(SetMin({ pt[1] : pt \in PointsOf(ops) }),
              SetMin({ pt[2] : pt \in PointsOf(ops) }),
              SetMax({ pt[1] : pt \in PointsOf(ops) }),
              SetMax({ pt[2] : pt \in PointsOf(ops) })),
          TRUE, 0, Len(ops), Closest(9, 1, 0))

\* gsk_path_new_from_contours: the loop over the list, then the struct
RECURSIVE new_from_contours_loop(_, _, _)
new_from_contours_loop(l, n_contours, flags) ==
  IF l = <<>> THEN [n_contours |-> n_contours, flags |-> flags]
  ELSE new_from_contours_loop(Tail(l), n_contours + 1,
                              flags \cap gsk_contour_get_flags(Head(l)))

\* Both flags whatever the contours
gsk_path_new_from_contours_both(contours, r) ==
  [flags |-> {"CLOSED", "FLAT"}, n_contours |-> r.n_contours,
   contours |-> [i \in 1..r.n_contours |-> contours[i]]]

gsk_path_new_from_contours_end(contours, r) ==
  [flags |-> r.flags, n_contours |-> r.n_contours,
   contours |-> [i \in 1..r.n_contours |-> contours[i]]]

gsk_path_new_from_contours(contours) ==
  gsk_path_new_from_contours_end(contours,
    new_from_contours_loop(contours, 0, {"CLOSED", "FLAT"}))

\* The flag of the path
gsk_path_is_closed_by_flags(self) == "CLOSED" \in self.flags

gsk_path_is_closed(self) ==
  IF self.n_contours # 1 THEN FALSE
  ELSE "CLOSED" \in gsk_contour_get_flags(self.contours[1])

\* The first contour alone
get_bounds_loop_first(self, i, b) == b

RECURSIVE get_bounds_loop(_, _, _)
get_bounds_loop(self, i, b) ==
  IF i > self.n_contours THEN b
  ELSE get_bounds_loop(self, i + 1,
         gsk_bounding_box_union(b, gsk_contour_get_bounds(self.contours[i])))

gsk_path_get_bounds(self) ==
  IF self.n_contours = 0
  THEN [ret |-> FALSE, bounds |-> graphene_rect_zero]
  ELSE [ret |-> TRUE,
        bounds |-> gsk_bounding_box_to_rect(
                     get_bounds_loop(self, 2, gsk_contour_get_bounds(self.contours[1])))]

\* tmp is only read when the contour reported its bounds
get_stroke_bounds_step(b, r) ==
  IF r.ret THEN gsk_bounding_box_union(b, r.b) ELSE b

RECURSIVE get_stroke_bounds_loop(_, _, _)
get_stroke_bounds_loop(self, i, b) ==
  IF i > self.n_contours THEN b
  ELSE get_stroke_bounds_loop(self, i + 1,
         get_stroke_bounds_step(b,
           gsk_contour_get_stroke_bounds(self.contours[i], b)))

\* b is declared without a value and the return value of the call on
\* contours[0] is not looked at
gsk_path_get_stroke_bounds(self, b) ==
  IF self.n_contours = 0
  THEN [ret |-> FALSE, bounds |-> graphene_rect_zero]
  ELSE [ret |-> TRUE,
        bounds |-> gsk_bounding_box_to_rect(
                     get_stroke_bounds_loop(self, 2,
                       gsk_contour_get_stroke_bounds(self.contours[1], b).b))]

\* The winding of the first contour alone
in_fill_loop_first(self, i, winding) ==
  IF self.n_contours = 0 THEN 0 ELSE gsk_contour_get_winding(self.contours[1])

RECURSIVE in_fill_loop(_, _, _)
in_fill_loop(self, i, winding) ==
  IF i > self.n_contours THEN winding
  ELSE in_fill_loop(self, i + 1,
                    winding + gsk_contour_get_winding(self.contours[i]))

\* The remainder of the division by two, of the sign of the dividend
winding_remainder_is_one(winding) == winding >= 0 /\ winding % 2 = 1

\* winding & 1: the lowest bit of the two's complement of winding
winding_and_one(winding) == winding % 2 = 1

FillRules == {"GSK_FILL_RULE_WINDING", "GSK_FILL_RULE_EVEN_ODD"}

in_fill_switch(fill_rule, winding) ==
  IF fill_rule = "GSK_FILL_RULE_EVEN_ODD" THEN winding_and_one(winding)
  ELSE winding # 0

gsk_path_in_fill(self, fill_rule) ==
  in_fill_switch(fill_rule, in_fill_loop(self, 1, 0))

\* t = 1 in the units t is counted in: t runs over 0..TOne
TOne == 2

\* a GskRealPathPoint
PathPoint(contour, idx, t) == [contour |-> contour, idx |-> idx, t |-> t]

\* what the caller's GskPathPoint holds before a call
GivenPoints == { PathPoint(7, 7, 1), PathPoint(0, 1, 0) }

\* No test of n_contours
gsk_path_get_start_point_unchecked(self, result) ==
  [ret |-> TRUE, result |-> PathPoint(0, 1, 0)]

\* res is written only when the path has a contour; contours count from 0
gsk_path_get_start_point(self, result) ==
  IF self.n_contours = 0 THEN [ret |-> FALSE, result |-> result]
  ELSE [ret |-> TRUE, result |-> PathPoint(0, 1, 0)]

\* The number of operations for idx
gsk_path_get_end_point_n_ops(self, result) ==
  IF self.n_contours = 0 THEN [ret |-> FALSE, result |-> result]
  ELSE [ret |-> TRUE,
        result |-> PathPoint(self.n_contours - 1,
                             gsk_contour_get_n_ops(self.contours[self.n_contours]),
                             TOne)]

gsk_path_get_end_point(self, result) ==
  IF self.n_contours = 0 THEN [ret |-> FALSE, result |-> result]
  ELSE [ret |-> TRUE,
        result |-> PathPoint(self.n_contours - 1,
                             gsk_contour_get_n_ops(self.contours[self.n_contours]) - 1,
                             TOne)]

\* The paths of test_in_fill_union: N_PATHS paths, here the pieces of a list
\* of contours cut in two places, appended to one builder.
N_PATHS == 3

MaxQueryContours == 3

ContourLists == UNION { [1..k -> QueryContourSet] : k \in 0..MaxQueryContours }

CutPaths(l, a, b) ==
  <<SubSeq(l, 1, a), SubSeq(l, a + 1, b), SubSeq(l, b + 1, Len(l))>>

\* The strings parsed: the empty string, a stray character, and a move
\* alone or followed by a line, a curve or a closed line.
QueryStrings ==
  { <<>>, <<TJunk>> } \cup
  { Flatten(<<m, c>>) : m \in MoveChunks,
      c \in { <<>>, CmdChunk("L", <<3, 4>>), CmdChunk("Q", <<3, 4, 5, 6>>),
              CmdChunk("L", <<3, 4>>) \o CmdChunk("Z", <<>>) } }

RECURSIVE add_paths(_, _, _)
add_paths(contours, paths, k) ==
  IF k > N_PATHS THEN contours
  ELSE add_paths(gsk_path_builder_add_path(contours, paths[k]), paths, k + 1)

QueryInit ==
  /\ \/ \E ts \in QueryStrings :
          q_src = [kind |-> "string", string |-> RenderTokens(ts)]
     \/ \E l \in ContourLists : \E b \in 0..Len(l) : \E a \in 0..b :
          q_src = [kind |-> "paths", paths |-> CutPaths(l, a, b)]
  /\ q_path = [flags |-> {}, n_contours |-> 0, contours |-> <<>>]
  /\ q_pc = "new"
  /\ q_out = [fn |-> "none"]

\* gsk_path_parse, with the path the builder makes of the calls
QueryParse ==
  /\ q_pc = "new" /\ q_src.kind = "string"
  /\ \E r \in {gsk_path_parse(q_src.string)} :
       IF r.ret = "path"
       THEN \E cs \in {gsk_path_builder_free_to_path(r.calls)} :
              /\ q_path' = gsk_path_new_from_contours(
                             [i \in 1..Len(cs) |-> gsk_standard_contour_new(cs[i])])
              /\ q_pc' = "built"
       ELSE /\ q_pc' = "null"
            /\ UNCHANGED q_path
  /\ UNCHANGED <<q_src, q_out>>
  /\ UNCHANGED <<parseVars, refVars, foreachVars, printVars, pointVars, curveVars>>

\* gsk_path_builder_add_path for each path, then gsk_path_builder_free_to_path
QueryUnion ==
  /\ q_pc = "new" /\ q_src.kind = "paths"
  /\ q_path' = gsk_path_new_from_contours(add_paths(<<>>, q_src.paths, 1))
  /\ q_pc' = "built"
  /\ UNCHANGED <<q_src, q_out>>
  /\ UNCHANGED <<parseVars, refVars, foreachVars, printVars, pointVars, curveVars>>

Asked(fn, r) ==
  /\ q_pc = "built"
  /\ q_pc' = "asked"
  /\ q_out' = [fn |-> fn, r |-> r]
  /\ UNCHANGED <<q_src, q_path>>
  /\ UNCHANGED <<parseVars, refVars, foreachVars, printVars, pointVars, curveVars>>

QueryIsEmpty == Asked("gsk_path_is_empty", gsk_path_is_empty(q_path.contours))

QueryIsClosed == Asked("gsk_path_is_closed", gsk_path_is_closed(q_path))

QueryGetBounds == Asked("gsk_path_get_bounds", gsk_path_get_bounds(q_path))

QueryGetStrokeBounds ==
  \E b \in Uninitialized :
    Asked("gsk_path_get_stroke_bounds", gsk_path_get_stroke_bounds(q_path, b))

QueryInFill ==
  \E fill_rule \in FillRules :
    Asked("gsk_path_in_fill",
          [fill_rule |-> fill_rule, ret |-> gsk_path_in_fill(q_path, fill_rule)])

\* gsk_contour_get_closest_point: TRUE when the contour has a point within
\* threshold, with its place in *result and how far it is in *out_dist;
\* FALSE leaves both as they were
gsk_contour_get_closest_point(contour, threshold, result) ==
  IF contour.closest.distance <= threshold
  THEN [ret |-> TRUE,
        result |-> PathPoint(result.contour, contour.closest.idx, contour.closest.t),
        distance |-> contour.closest.distance]
  ELSE [ret |-> FALSE, result |-> result]

\* The threshold left as it was
closest_point_threshold_kept(threshold, r) == threshold

\* threshold = distance, in the body of the if
closest_point_threshold(threshold, r) ==
  IF r.ret THEN r.distance ELSE threshold

\* one pass of the loop, r being what the contour returned; handed is
\* the thresholds handed to the contours so far
RECURSIVE closest_point_loop(_, _, _, _, _, _)
closest_point_pass(self, i, threshold, found, handed, r) ==
  closest_point_loop(self, i + 1, closest_point_threshold(threshold, r),
                     IF r.ret THEN PathPoint(i - 1, r.result.idx, r.result.t)
                     ELSE r.result,
                     found \/ r.ret, Append(handed, threshold))

closest_point_loop(self, i, threshold, res, found, handed) ==
  IF i > self.n_contours
  THEN [ret |-> found, result |-> res, handed |-> handed]
  ELSE closest_point_pass(self, i, threshold, found, handed,
         gsk_contour_get_closest_point(self.contours[i], threshold, res))

gsk_path_get_closest_point(self, threshold, result) ==
  closest_point_loop(self, 1, threshold, result, FALSE, <<>>)

\* the thresholds asked with
Thresholds == {0, 2, 4}

\* r with the GskPathPoint the caller handed in
WithGiven(r, given) == [ret |-> r.ret, result |-> r.result, given |-> given]

QueryGetStartPoint ==
  \E result \in GivenPoints :
    Asked("gsk_path_get_start_point",
          WithGiven(gsk_path_get_start_point(q_path, result), result))

QueryGetEndPoint ==
  \E result \in GivenPoints :
    Asked("gsk_path_get_end_point",
          WithGiven(gsk_path_get_end_point(q_path, result), result))

QueryGetClosestPoint ==
  \E threshold \in Thresholds : \E result \in GivenPoints :
    \E r \in {gsk_path_get_closest_point(q_path, threshold, result)} :
      Asked("gsk_path_get_closest_point",
            [ret |-> r.ret, result |-> r.result, handed |-> r.handed,
             threshold |-> threshold, given |-> result])

InitQuery == ParseInit(<<>>) /\ PathNew /\ ForeachIdle /\ PrintIdle /\ QueryInit /\ PointIdle /\ CurveIdle

NextQuery ==
  \/ QueryParse
  \/ QueryUnion
  \/ QueryIsEmpty
  \/ QueryIsClosed
  \/ QueryGetBounds
  \/ QueryGetStrokeBounds
  \/ QueryInFill
  \/ QueryGetStartPoint
  \/ QueryGetEndPoint
  \/ QueryGetClosestPoint

SpecQuery == InitQuery /\ [][NextQuery]_vars

(***************************************************************************)
(* The claims on the queries                                               *)
(***************************************************************************)
Made == q_pc \in {"built", "asked"}

AskedFor(fn) == q_pc = "asked" /\ q_out.fn = fn

\* the list handed to gsk_path_new_from_contours for the appended paths
Appended == q_src.paths[1] \o q_src.paths[2] \o q_src.paths[3]

\* C14: the empty string parses to a path (not NULL) with no contour, which
\* is empty, has no bounds, and has neither a start nor an end point.
C14_EmptyString ==
  (q_src.kind = "string" /\ q_src.string = <<>>) =>
     /\ q_pc # "null"
     /\ Made => q_path.n_contours = 0
     /\ AskedFor("gsk_path_is_empty") => q_out.r = TRUE
     /\ AskedFor("gsk_path_get_bounds") => q_out.r.ret = FALSE
     /\ AskedFor("gsk_path_get_start_point") => q_out.r.ret = FALSE
     /\ AskedFor("gsk_path_get_end_point") => q_out.r.ret = FALSE

C14_Witness ==
  /\ q_src.kind = "string" /\ q_src.string = <<>>
  /\ AskedFor("gsk_path_get_start_point")
  /\ q_out.r.ret = FALSE

\* C15: the flags of a path are the flags among CLOSED and FLAT that every
\* contour of the list has, both for the empty list; contours[] is the list
\* in its order and n_contours its length.
C15_FlagsAndOrder ==
  (Made /\ q_src.kind = "paths") =>
     /\ q_path.flags = { f \in {"CLOSED", "FLAT"} :
                           \A i \in 1..Len(Appended) : f \in Appended[i].flags }
     /\ Appended = <<>> => q_path.flags = {"CLOSED", "FLAT"}
     /\ q_path.n_contours = Len(Appended)
     /\ q_path.contours = Appended

\* A closed flat contour and an open flat one: the path is flat only.
C15_Witness ==
  /\ Made /\ q_src.kind = "paths"
  /\ q_path.n_contours = 2
  /\ q_path.contours[1].flags = {"CLOSED", "FLAT"}
  /\ q_path.contours[2].flags = {"FLAT"}
  /\ q_path.flags = {"FLAT"}

\* C16: gsk_path_is_closed is TRUE exactly for a path of one contour that
\* is closed; FALSE for no contour and for two or more, closed or not.
C16_IsClosed ==
  AskedFor("gsk_path_is_closed") =>
     q_out.r = (/\ Len(q_path.contours) = 1
                /\ "CLOSED" \in q_path.contours[1].flags)

\* Two closed contours: the path has the CLOSED flag and is not closed.
C16_Witness ==
  /\ AskedFor("gsk_path_is_closed")
  /\ Len(q_path.contours) = 2
  /\ \A i \in 1..2 : "CLOSED" \in q_path.contours[i].flags
  /\ "CLOSED" \in q_path.flags
  /\ q_out.r = FALSE

\* the smallest box around a set of boxes, as a rectangle
RectAround(boxes) ==
  [x |-> SetMin({ b.min[1] : b \in boxes }),
   y |-> SetMin({ b.min[2] : b \in boxes }),
   width  |-> SetMax({ b.max[1] : b \in boxes }) - SetMin({ b.min[1] : b \in boxes }),
   height |-> SetMax({ b.max[2] : b \in boxes }) - SetMin({ b.min[2] : b \in boxes })]

ContoursOf(path) == { path.contours[i] : i \in 1..Len(path.contours) }

C18_StrokeBounds ==
  AskedFor("gsk_path_get_stroke_bounds") =>
     IF Len(q_path.contours) = 0
     THEN q_out.r = [ret |-> FALSE, bounds |-> graphene_rect_zero]
     ELSE /\ q_out.r.ret = TRUE
          /\ (\E c \in ContoursOf(q_path) : c.reports) =>
               q_out.r.bounds =
                 RectAround({ StrokeBox(c) : c \in { d \in ContoursOf(q_path) : d.reports } })

RECURSIVE SumWinding(_)
SumWinding(contours) ==
  IF contours = <<>> THEN 0 ELSE Head(contours).winding + SumWinding(Tail(contours))

Odd(w) == \E k \in (0 - 8)..8 : w = 2 * k + 1

\* C19: with W the sum of the windings of all contours, gsk_path_in_fill is
\* TRUE under the WINDING rule exactly when W is not 0 and under the
\* EVEN_ODD rule exactly when W is odd, negative W included; a path with
\* no contour is never in fill.
C19_InFill ==
  AskedFor("gsk_path_in_fill") =>
     /\ q_out.r.ret = IF q_out.r.fill_rule = "GSK_FILL_RULE_WINDING"
                      THEN SumWinding(q_path.contours) # 0
                      ELSE Odd(SumWinding(q_path.contours))
     /\ Len(q_path.contours) = 0 => q_out.r.ret = FALSE

\* A sum of -1 under EVEN_ODD: in fill.
C19_Witness ==
  /\ AskedFor("gsk_path_in_fill")
  /\ q_out.r.fill_rule = "GSK_FILL_RULE_EVEN_ODD"
  /\ SumWinding(q_path.contours) = 0 - 1
  /\ Len(q_path.contours) = 3
  /\ q_out.r.ret = TRUE

\* the number of the appended paths that have the point in fill on their own
Containing(fill_rule) ==
  Cardinality({ k \in 1..N_PATHS :
                  gsk_path_in_fill(gsk_path_new_from_contours(q_src.paths[k]), fill_rule) })

UnionEvenOdd ==
  (AskedFor("gsk_path_in_fill") /\ q_src.kind = "paths"
     /\ q_out.r.fill_rule = "GSK_FILL_RULE_EVEN_ODD") =>
       q_out.r.ret = (Containing("GSK_FILL_RULE_EVEN_ODD") % 2 = 1)

UnionWinding(counted_under) ==
  (AskedFor("gsk_path_in_fill") /\ q_src.kind = "paths"
     /\ q_out.r.fill_rule = "GSK_FILL_RULE_WINDING") =>
       /\ Containing(counted_under) = 0 => q_out.r.ret = FALSE
       /\ Containing(counted_under) = 1 => q_out.r.ret = TRUE

\* C20 as stated: the EVEN_ODD result for the appended paths is the parity
\* of the number of paths that contain the point under EVEN_ODD, and the
\* WINDING result is FALSE when none of them contains the point and TRUE
\* when exactly one does, containing being counted the same way.
C20_UnionAsStated == UnionEvenOdd /\ UnionWinding("GSK_FILL_RULE_EVEN_ODD")

\* C20: the EVEN_ODD result for the appended paths is the parity of the
\* number of paths that contain the point under EVEN_ODD; the WINDING
\* result is FALSE when no path contains the point under WINDING and TRUE
\* when exactly one does.
C20_Union == UnionEvenOdd /\ UnionWinding("GSK_FILL_RULE_WINDING")

\* Two paths with contours, one of which has the point in fill.
C20_Witness ==
  /\ AskedFor("gsk_path_in_fill") /\ q_src.kind = "paths"
  /\ q_out.r.fill_rule = "GSK_FILL_RULE_WINDING"
  /\ Containing("GSK_FILL_RULE_WINDING") = 1
  /\ Cardinality({ k \in 1..N_PATHS : q_src.paths[k] # <<>> }) >= 2
  /\ q_out.r.ret = TRUE

\* C21: gsk_path_get_start_point and gsk_path_get_end_point return FALSE,
\* with the result as it was, exactly for a path with no contour; else the
\* start is contour 0, segment 1, t = 0 and the end is the last contour,
\* its number of operations less one, t = 1.
C21_StartAndEnd ==
  /\ AskedFor("gsk_path_get_start_point") =>
       IF Len(q_path.contours) = 0
       THEN q_out.r.ret = FALSE /\ q_out.r.result = q_out.r.given
       ELSE q_out.r.ret = TRUE /\ q_out.r.result = PathPoint(0, 1, 0)
  /\ AskedFor("gsk_path_get_end_point") =>
       IF Len(q_path.contours) = 0
       THEN q_out.r.ret = FALSE /\ q_out.r.result = q_out.r.given
       ELSE /\ q_out.r.ret = TRUE
            /\ q_out.r.result =
                 PathPoint(Len(q_path.contours) - 1,
                           q_path.contours[Len(q_path.contours)].n_ops - 1, TOne)

\* The end of a path of three contours, the last one of five operations.
C21_Witness ==
  /\ AskedFor("gsk_path_get_end_point")
  /\ Len(q_path.contours) = 3
  /\ q_path.contours[3].n_ops = 5
  /\ q_out.r.result = PathPoint(2, 4, TOne)
  /\ q_out.r.given = PathPoint(7, 7, 1)

\* the distances of the contours of the path, in order
Distances == [i \in 1..Len(q_path.contours) |-> q_path.contours[i].closest.distance]

\* C22: gsk_path_get_closest_point returns TRUE exactly when some contour has
\* a point within the threshold; the thresholds handed to the contours
\* never increase, and after a contour is accepted the next threshold is
\* its distance; on TRUE the result names a contour than which none is
\* strictly closer, with the segment and t of that contour.
C22_ClosestPoint ==
  AskedFor("gsk_path_get_closest_point") =>
     /\ q_out.r.ret = (\E i \in DOMAIN Distances : Distances[i] <= q_out.r.threshold)
     /\ Len(q_out.r.handed) = Len(Distances)
     /\ \A i \in DOMAIN Distances :
          /\ i = 1 => q_out.r.handed[i] = q_out.r.threshold
          /\ i > 1 => q_out.r.handed[i] <= q_out.r.handed[i - 1]
          /\ (i > 1 /\ Distances[i - 1] <= q_out.r.handed[i - 1]) =>
               q_out.r.handed[i] = Distances[i - 1]
     /\ q_out.r.ret =>
          /\ q_out.r.result.contour + 1 \in DOMAIN Distances
          /\ \A i \in DOMAIN Distances :
               Distances[q_out.r.result.contour + 1] <= Distances[i]
          /\ q_out.r.result.idx = q_path.contours[q_out.r.result.contour + 1].closest.idx
          /\ q_out.r.result.t = q_path.contours[q_out.r.result.contour + 1].closest.t
     /\ ~q_out.r.ret => q_out.r.result = q_out.r.given

\* The nearest contour is between two farther ones that are also within
\* the threshold: the first is accepted, the second replaces it, the third
\* is turned down.
C22_Witness ==
  /\ AskedFor("gsk_path_get_closest_point")
  /\ Distances = <<3, 1, 2>>
  /\ q_out.r.threshold = 4
  /\ q_out.r.handed = <<4, 3, 1>>
  /\ q_out.r.ret /\ q_out.r.result = PathPoint(1, 1, 0)

(***************************************************************************)
(* Path points: gsk_path_point_equal and gsk_path_point_compare, called on *)
(* every pair of three points with t between 0 and 1.                      *)
(***************************************************************************)
MaxPointContour == 1

MaxPointIdx == 3

PathPoints ==
  { PathPoint(c, i, t) : c \in 0..MaxPointContour, i \in 1..MaxPointIdx, t \in 0..TOne }

\* The two ways round of a boundary told apart: no third case
gsk_path_point_equal_one_way(p1, p2) ==
  /\ p1.contour = p2.contour
  /\ \/ (p1.idx = p2.idx /\ p1.t = p2.t)
     \/ (p1.idx + 1 = p2.idx /\ p1.t = TOne /\ p2.t = 0)

gsk_path_point_equal(p1, p2) ==
  IF p1.contour = p2.contour
  THEN \/ (p1.idx = p2.idx /\ p1.t = p2.t)
       \/ (p1.idx + 1 = p2.idx /\ p1.t = TOne /\ p2.t = 0)
       \/ (p1.idx = p2.idx + 1 /\ p1.t = 0 /\ p2.t = TOne)
  ELSE FALSE

\* the chain of comparisons after the test for equality
point_compare_fields(p1, p2) ==
  IF p1.contour < p2.contour THEN 0 - 1
  ELSE IF p1.contour > p2.contour THEN 1
  ELSE IF p1.idx < p2.idx THEN 0 - 1
  ELSE IF p1.idx > p2.idx THEN 1
  ELSE IF p1.t < p2.t THEN 0 - 1
  ELSE IF p1.t > p2.t THEN 1
  ELSE 0

\* No test for equality first
gsk_path_point_compare_fields_only(p1, p2) == point_compare_fields(p1, p2)

gsk_path_point_compare(p1, p2) ==
  IF gsk_path_point_equal(p1, p2) THEN 0 ELSE point_compare_fields(p1, p2)

PointInit ==
  /\ pt_in \in [1..3 -> PathPoints]
  /\ pt_pc = "new"
  /\ pt_out = [fn |-> "none"]

PointEqual ==
  /\ pt_pc = "new"
  /\ pt_pc' = "called"
  /\ pt_out' = [fn |-> "gsk_path_point_equal",
                r |-> [i \in 1..3 |-> [j \in 1..3 |->
                         gsk_path_point_equal(pt_in[i], pt_in[j])]]]
  /\ UNCHANGED pt_in
  /\ UNCHANGED <<parseVars, refVars, foreachVars, printVars, queryVars, curveVars>>

PointCompare ==
  /\ pt_pc = "new"
  /\ pt_pc' = "called"
  /\ pt_out' = [fn |-> "gsk_path_point_compare",
                r |-> [i \in 1..3 |-> [j \in 1..3 |->
                         gsk_path_point_compare(pt_in[i], pt_in[j])]]]
  /\ UNCHANGED pt_in
  /\ UNCHANGED <<parseVars, refVars, foreachVars, printVars, queryVars, curveVars>>

InitPoint ==
  ParseInit(<<>>) /\ PathNew /\ ForeachIdle /\ PrintIdle /\ QueryIdle /\ PointInit /\ CurveIdle

NextPoint == PointEqual \/ PointCompare

SpecPoint == InitPoint /\ [][NextPoint]_vars

Called(fn) == pt_pc = "called" /\ pt_out.fn = fn

\* the same place on the path: the same segment and t, or the end of one
\* segment and the start of the next
SamePlace(a, b) ==
  /\ a.contour = b.contour
  /\ a.idx * TOne + a.t = b.idx * TOne + b.t

\* C23: gsk_path_point_equal is TRUE exactly for two points of the same
\* contour with the same segment and t or with (s, t = 1) and (s + 1, t = 0)
\* in either order; it is reflexive, symmetric and transitive.
C23_PointEqual ==
  Called("gsk_path_point_equal") =>
     /\ \A i, j \in 1..3 :
          /\ pt_out.r[i][j] = SamePlace(pt_in[i], pt_in[j])
          /\ pt_out.r[i][i]
          /\ pt_out.r[i][j] = pt_out.r[j][i]
     /\ (pt_out.r[1][2] /\ pt_out.r[2][3]) => pt_out.r[1][3]

\* (s + 1, 0) asked against (s, 1), the later representation first.
C23_Witness ==
  /\ Called("gsk_path_point_equal")
  /\ pt_in[1] = PathPoint(1, 2, 0) /\ pt_in[2] = PathPoint(1, 1, TOne)
  /\ pt_in[3] = PathPoint(1, 2, 0)
  /\ pt_out.r[1][2] /\ pt_out.r[2][3] /\ pt_out.r[1][3]

\* the lexicographic order of (contour, segment, t)
LexBefore(a, b) ==
  \/ a.contour < b.contour
  \/ a.contour = b.contour /\ a.idx < b.idx
  \/ a.contour = b.contour /\ a.idx = b.idx /\ a.t < b.t

\* C24: gsk_path_point_compare is 0 exactly for equal points, changes sign
\* when its arguments are swapped, is transitive, gives equal points the
\* same result against any third point, and for points that are not equal
\* is the lexicographic order of (contour, segment, t).
C24_PointCompare ==
  Called("gsk_path_point_compare") =>
     /\ \A i, j \in 1..3 :
          /\ (pt_out.r[i][j] = 0) = gsk_path_point_equal(pt_in[i], pt_in[j])
          /\ pt_out.r[i][j] = 0 - pt_out.r[j][i]
          /\ pt_out.r[i][j] # 0 =>
               pt_out.r[i][j] = IF LexBefore(pt_in[i], pt_in[j]) THEN 0 - 1 ELSE 1
     /\ (pt_out.r[1][2] <= 0 /\ pt_out.r[2][3] <= 0) => pt_out.r[1][3] <= 0
     /\ (pt_out.r[1][2] < 0 /\ pt_out.r[2][3] <= 0) => pt_out.r[1][3] < 0
     /\ (pt_out.r[1][2] <= 0 /\ pt_out.r[2][3] < 0) => pt_out.r[1][3] < 0
     /\ pt_out.r[1][2] = 0 => pt_out.r[1][3] = pt_out.r[2][3]

\* The two representations of a boundary compare as 0 with each other and
\* both come before a point further along the second segment.
C24_Witness ==
  /\ Called("gsk_path_point_compare")
  /\ pt_in[1] = PathPoint(0, 1, TOne) /\ pt_in[2] = PathPoint(0, 2, 0)
  /\ pt_in[3] = PathPoint(0, 2, 1)
  /\ pt_out.r[1][2] = 0
  /\ pt_out.r[1][3] = 0 - 1 /\ pt_out.r[2][3] = 0 - 1

(***************************************************************************)
(* gsk_curve_decompose: a curve cut into lines by bisection of [0, 1].     *)
(* Progress is counted in halves of MIN_PROGRESS.  The flatness test of a  *)
(* curved piece can pass or fail at every piece, which takes in every      *)
(* curve and every tolerance; a line is flat.                              *)
(***************************************************************************)
\* #define MIN_PROGRESS (1/1024.f)
MinProgressInverse == 1024

\* progress 1.0, and MIN_PROGRESS, in the units progress is counted in
ProgressOne == 2 * MinProgressInverse

MIN_PROGRESS == ProgressOne \div MinProgressInverse

\* the most pieces that may wait on the stack
MaxStack == 16

\* gsk_curve_get_point, on a curve that leaves the chord
gsk_curve_get_point(t) == <<t, (t * (ProgressOne - t)) \div ProgressOne>>

Piece(t0, t1, p0, p1) == [t0 |-> t0, t1 |-> t1, p0 |-> p0, p1 |-> p1]

CurveOps == {"LINE", "QUAD", "CUBIC", "ARC"}

\* Bisection goes on until the piece is flat
decompose_stops_when_flat(flat, piece) == flat

\* the piece is accepted when it is flat enough or when its interval is
\* narrower than MIN_PROGRESS
decompose_stops(flat, piece) ==
  flat \/ piece.t1 - piece.t0 < MIN_PROGRESS

\* what the flatness test can answer for a piece of the curve
is_flat_enough(op) == IF op = "LINE" THEN {TRUE} ELSE BOOLEAN

\* The second half first
decompose_split_second_first(piece, mid, pm) ==
  <<Piece(mid, piece.t1, pm, piece.p1), Piece(piece.t0, mid, piece.p0, pm)>>

\* gsk_curve_split at the middle of the interval: two pieces that share
\* the point pm, the first half to be done first
decompose_split(piece, mid, pm) ==
  <<Piece(piece.t0, mid, piece.p0, pm), Piece(mid, piece.t1, pm, piece.p1)>>

\* the arguments of add_line_func for a piece
LineCall(piece) ==
  [emitted |-> TRUE, from |-> piece.p0, to |-> piece.p1,
   from_progress |-> piece.t0, to_progress |-> piece.t1]

CurveInit ==
  /\ cv_op \in CurveOps
  /\ cv_stack = <<Piece(0, ProgressOne, gsk_curve_get_point(0),
                        gsk_curve_get_point(ProgressOne))>>
  /\ cv_last = [emitted |-> FALSE]
  /\ cv_pc = "run"

\* one piece taken from the stack: handed to the callback as a line, or
\* split in two
DecomposeStep ==
  /\ cv_pc = "run"
  /\ cv_stack # <<>>
  /\ \E flat \in is_flat_enough(cv_op) :
       IF decompose_stops(flat, Head(cv_stack))
       THEN /\ cv_last' = LineCall(Head(cv_stack))
            /\ cv_stack' = Tail(cv_stack)
       ELSE /\ Len(cv_stack) < MaxStack
            /\ \E mid \in {(Head(cv_stack).t0 + Head(cv_stack).t1) \div 2} :
                 cv_stack' = decompose_split(Head(cv_stack), mid,
                                             gsk_curve_get_point(mid))
                             \o Tail(cv_stack)
            /\ UNCHANGED cv_last
  /\ UNCHANGED <<cv_op, cv_pc>>
  /\ UNCHANGED <<parseVars, refVars, foreachVars, printVars, queryVars, pointVars>>

\* nothing left to do: gsk_curve_decompose returns TRUE
DecomposeReturn ==
  /\ cv_pc = "run"
  /\ cv_stack = <<>>
  /\ cv_pc' = "done"
  /\ UNCHANGED <<cv_op, cv_stack, cv_last>>
  /\ UNCHANGED <<parseVars, refVars, foreachVars, printVars, queryVars, pointVars>>

InitCurve ==
  ParseInit(<<>>) /\ PathNew /\ ForeachIdle /\ PrintIdle /\ QueryIdle /\ PointIdle /\ CurveInit

NextCurve == DecomposeStep \/ DecomposeReturn

SpecCurve == InitCurve /\ [][NextCurve]_vars

\* a call that has begun runs to its end
SpecCurveFair == SpecCurve /\ WF_vars(NextCurve)

\* C25: the calls of the callback form a chain over [0, 1]: the first one
\* starts at progress 0 and at the start point of the curve, each one has
\* 0 <= fromProgress < toProgress <= 1 and starts at the point and the
\* progress where the one before ended, and when the decomposition returns
\* at least one call was made and the last one ended at progress 1.
C25_DecomposeChain ==
  [][ /\ cv_last' # cv_last =>
           /\ 0 <= cv_last'.from_progress
           /\ cv_last'.from_progress < cv_last'.to_progress
           /\ cv_last'.to_progress <= ProgressOne
           /\ IF cv_last.emitted
              THEN /\ cv_last'.from_progress = cv_last.to_progress
                   /\ cv_last'.from = cv_last.to
              ELSE /\ cv_last'.from_progress = 0
                   /\ cv_last'.from = gsk_curve_get_point(0)
      /\ cv_pc' = "done" =>
           /\ cv_last'.emitted
           /\ cv_last'.to_progress = ProgressOne
    ]_vars

\* A curve done in pieces of different widths: the last line covers the
\* last quarter and the one before it ended there.
C25_Witness ==
  /\ cv_pc = "done"
  /\ cv_op = "CUBIC"
  /\ cv_last.emitted
  /\ cv_last.from_progress = 3 * (ProgressOne \div 4)
  /\ cv_last.from = gsk_curve_get_point(3 * (ProgressOne \div 4))
  /\ cv_last.to_progress = ProgressOne

RECURSIVE Log2(_)
Log2(n) == IF n <= 1 THEN 0 ELSE 1 + Log2(n \div 2)

\* C26: the decomposition returns for every curve, whatever the flatness
\* test answers: a piece narrower than the floor is never split, so the
\* pieces waiting are never more than one for each halving of [0, 1] down
\* to the floor, and the call ends.
C26_DecomposeTerminates ==
  /\ [](Len(cv_stack) <= Log2(ProgressOne) + 1)
  /\ [](\A k \in 1..Len(cv_stack) : cv_stack[k].t0 < cv_stack[k].t1)
  /\ <>(cv_pc = "done")

\* A curve whose last piece was never flat: it was handed over when its
\* interval had become narrower than the floor.
C26_Witness ==
  /\ cv_pc = "done"
  /\ cv_op = "QUAD"
  /\ cv_last.emitted
  /\ cv_last.to_progress - cv_last.from_progress < MIN_PROGRESS

\* C27: with CUBIC allowed and QUAD not, a quadratic (p0, p1, p2) of a
\* contour reaches the caller's func as one CUBIC of 4 points: p0, then the
\* point with 3 * c = p0 + 2 * p1, then the point with 3 * c = p2 + 2 * p1,
\* then p2.
C27_QuadAsCubic ==
  ("CUBIC" \in fe_flags /\ "QUAD" \notin fe_flags) =>
     \A k \in 1..Len(fe_log) :
        fe_path[fe_log[k].i][fe_log[k].j].op = "QUAD" =>
           \A quad \in {fe_path[fe_log[k].i][fe_log[k].j].pts} :
              /\ fe_log[k].n = 1
              /\ fe_log[k].op = "CUBIC"
              /\ Len(fe_log[k].pts) = 4
              /\ fe_log[k].pts[1] = quad[1]
              /\ fe_log[k].pts[4] = quad[3]
              /\ \A c \in 1..2 :
                   /\ 3 * fe_log[k].pts[2][c] = quad[1][c] + 2 * quad[2][c]
                   /\ 3 * fe_log[k].pts[3][c] = quad[3][c] + 2 * quad[2][c]

\* The quadratic (-12, 3) (0, 6) (30, 9) delivered as a cubic with the
\* inner control points (-4, 5) and (10, 7), arcs being allowed too.
C27_Witness ==
  /\ fe_flags = {"CUBIC", "ARC"}
  /\ \E k \in 1..Len(fe_log) :
       /\ fe_path[fe_log[k].i][fe_log[k].j].op = "QUAD"
       /\ fe_log[k].op = "CUBIC"
       /\ fe_log[k].pts = << <<0 - 12, 3>>, <<0 - 4, 5>>, <<10, 7>>, <<30, 9>> >>

\* C28: gsk_path_parse returns on every input: the scan position never
\* passes the NUL, and a pass of the loop that does not go to the error exit
\* leaves it at least one character further on, so that the distance to the
\* NUL falls with every pass and the loop ends.
C28_ParseTerminates ==
  /\ p <= Len(input) + 1
  /\ (ppc = "loop" /\ CharAt(input, p) # NUL) =>
       \A r \in {parse_iteration(input, p, cmd, after_comma, ParseLocals)} :
          r.ok => r.p > p
  /\ (ppc = "loop" /\ CharAt(input, p) = NUL) => p = Len(input) + 1

\* A string read to its end in three passes or more, the last one with no
\* command letter.
C28_Witness ==
  /\ ppc = "done" /\ ret = "path"
  /\ repeat
  /\ p = Len(input) + 1
  /\ Len(builder) >= 3

\* C29: the scan position stays between the start of the string and its
\* terminating NUL, and stands past the start whenever the character
\* before it is read, at the end of a pass of the loop.
C29_ScanInBounds ==
  /\ [](1 <= p /\ p <= Len(input) + 1)
  /\ [][(ppc = "loop" /\ ppc' = "loop") => p' > 1]_vars

\* The string ends where an arc flag was to be read: the scan stops at the
\* NUL and the call returns NULL.
C29_Witness ==
  /\ ppc = "done" /\ ret = "NULL"
  /\ cmd = "A"
  /\ Len(tokens) = 7 /\ tokens[7] = TNum(0)
  /\ p = Len(input) + 1

(***************************************************************************)
(* gsk_path_to_cairo: gsk_path_foreach_with_tolerance called with          *)
(* GSK_PATH_FOREACH_ALLOW_CUBIC and the callback gsk_path_to_cairo_add_op, *)
(* which draws the operation on the cairo context and returns TRUE, or     *)
(* reaches g_assert_not_reached.                                           *)
(***************************************************************************)
gsk_path_to_cairo_add_op(op) ==
  CASE op \in {"MOVE", "CLOSE", "LINE", "CUBIC"} -> "TRUE"
    [] op \in {"QUAD", "ARC"} -> "g_assert_not_reached"
    [] OTHER -> "g_assert_not_reached"

\* the paths of n contours at most that gsk_path_to_cairo is called on
CairoPaths(n) == UNION { [1..k -> ContourSet] : k \in 0..n }

CairoInit ==
  /\ fe_path \in CairoPaths(MaxContours)
  /\ fe_flags = {"CUBIC"}
  /\ fe_i = 1 /\ fe_j = 1
  /\ fe_pc = "loop"
  /\ fe_ok = TRUE
  /\ fe_log = <<>>
  /\ fe_ret = "none"

\* the invocations of gsk_path_to_cairo_add_op for the offers ps, up to the
\* first that does not return
CairoReached(ps) ==
  { k \in 1..Len(ps) : gsk_path_to_cairo_add_op(ps[k].op) # "TRUE" }

\* gsk_contour_foreach hands its next operation to func, and the callback
\* is invoked for what func makes of it.
CairoContourOp ==
  /\ fe_pc = "contour"
  /\ fe_j <= Len(fe_path[fe_i])
  /\ \E ps \in Offers(foreach_func(fe_flags, fe_path[fe_i][fe_j]), fe_flags) :
       \A bad \in {CairoReached(ps)} :
          IF bad = {}
          THEN /\ fe_log' = fe_log \o Invocations(ps, 0, fe_i, fe_j)
               /\ fe_j' = fe_j + 1
               /\ UNCHANGED <<fe_pc, fe_ok, fe_ret>>
          ELSE /\ fe_log' = fe_log \o
                            SubSeq(Invocations(ps, 0, fe_i, fe_j), 1, SetMin(bad))
               /\ fe_pc' = "aborted"
               /\ fe_ret' = "g_assert_not_reached"
               /\ UNCHANGED <<fe_j, fe_ok>>
  /\ UNCHANGED <<fe_path, fe_flags, fe_i>>
  /\ UNCHANGED <<parseVars, refVars, printVars, queryVars, pointVars, curveVars>>

InitCairo == ParseInit(<<>>) /\ PathNew /\ CairoInit /\ PrintIdle /\ QueryIdle /\ PointIdle /\ CurveIdle

NextCairo ==
  \/ ForeachCall
  \/ CairoContourOp
  \/ ContourDone
  \/ ForeachTest
  \/ ForeachReturn

SpecCairo == InitCairo /\ [][NextCairo]_vars

\* C30: gsk_path_to_cairo never reaches g_assert_not_reached: whatever the
\* path holds, the callback is invoked with MOVE, CLOSE, LINE or CUBIC only,
\* and every operation of the path has been handed over when the call ends.
C30_CairoOps ==
  /\ fe_pc # "aborted" /\ fe_ret # "g_assert_not_reached"
  /\ \A k \in 1..Len(fe_log) :
        /\ fe_log[k].op \in {"MOVE", "CLOSE", "LINE", "CUBIC"}
        /\ fe_log[k].ret
  /\ fe_pc = "done" =>
        /\ fe_ret = "TRUE"
        /\ \A i \in 1..Len(fe_path) : \A j \in 1..Len(fe_path[i]) :
              \E k \in 1..Len(fe_log) : fe_log[k].i = i /\ fe_log[k].j = j

\* A path with a quadratic, a cubic and an arc drawn to its end: the
\* quadratic came as one cubic and the arc in pieces.
C30_Witness ==
  /\ fe_pc = "done" /\ fe_ret = "TRUE"
  /\ fe_flags = {"CUBIC"}
  /\ \E i \in 1..Len(fe_path) : fe_path[i] = ContourMixed
  /\ \E k \in 1..Len(fe_log) :
        /\ fe_path[fe_log[k].i][fe_log[k].j].op = "QUAD"
        /\ fe_log[k].op = "CUBIC" /\ fe_log[k].n = 1
  /\ \E k \in 1..Len(fe_log) :
        /\ fe_path[fe_log[k].i][fe_log[k].j].op = "ARC"
        /\ fe_log[k].n = 2

====
